---- MODULE Spec2Model ----
(***************************************************************************)
(* Model of the Dawson court scraper's rate-limited fetch-and-download     *)
(* pipeline: APIClient (semaphore, RateLimiter, tenacity retry wrapper),   *)
(* ParallelDownloader (pre-flight, queue, workers, statistics) and the     *)
(* DatabaseManager ledger, with the filesystem and process restarts.       *)
(*                                                                         *)
(* Two specifications share the module:                                    *)
(*   SpecClient   - concurrent callers of APIClient._make_request and      *)
(*                  APIClient.download_file;                               *)
(*   SpecPipeline - DawsonScraper start-up, ParallelDownloader runs and    *)
(*                  the ledger, across crashes and restarts.               *)
(***************************************************************************)
EXTENDS Integers, Sequences, FiniteSets, TLC

VARIABLES
    \* ---- APIClient (api_client.py) ----
    max_concurrent,   \* APIClient.max_concurrent
    semaphore,        \* free permits of APIClient.semaphore
    tokens,           \* RateLimiter.tokens, in units of 1/TokenScale token
    lock,             \* holder of RateLimiter.lock, or NoOne
    lockWaiters,      \* FIFO of callers waiting for RateLimiter.lock
    slept,            \* ticks the lock holder has slept since last_update
    late,             \* a clock reading of acquire has shown more time than
                      \* the sleeps since last_update account for
    pc,               \* position of each caller in its call
    kind,             \* which method a caller is executing
    attempt_number,   \* tenacity's attempt counter of the current call
    netCalls,         \* network attempts made during the current call
    returned,         \* the call that returned last: its caller, method, last
                      \* network outcome, result and number of network attempts
    issued,           \* calls started so far
    response,         \* the APIResponse fetch_opinions got from _make_request
    fetched,          \* the list fetch_opinions returned for it
    \* ---- persistent state: the ledger (database.py) and the filesystem ----
    rows,             \* docket_entry_ids of the downloads table, in created_at order
    ledger,           \* the columns of each row
    disk,             \* size of each record's document file, or NoFile
    \* ---- one process: DawsonScraper and its ParallelDownloader ----
    phase,            \* where the process is
    mode,             \* how the process was started (run.py)
    settings_skip,    \* settings.skip_existing
    opinions,         \* argument of the current download_opinions call
    skip_existing,    \* argument of the current download_opinions call
    fresh,            \* self.stats was all zero when the current call began
    idx,              \* position of the pre-flight loop in opinions
    exists,           \* result of _check_file_exists for opinions[idx]
    tasks,            \* number of tasks created by the current call
    download_queue,   \* ParallelDownloader.download_queue
    unfinished,       \* unfinished tasks counted by download_queue.join()
    stats,            \* ParallelDownloader.stats
    wpc,              \* position of each worker
    wtask,            \* record of the task a worker holds
    wdata,            \* bytes a worker has received for its task
    woff,             \* bytes a worker has written to the file it holds open
    werr,             \* str(e) of the exception a worker's task has raised
    \* ---- history ----
    orphan,           \* records left DOWNLOADING by a crash, and their reconciliation
    pre,              \* what ledger and disk said of each record when the call began
    outcome,          \* how the current call counted each record
    contacted,        \* records a network call was made for during the current call
    runs,             \* download_opinions calls so far
    starts,           \* process starts so far
    retried,          \* what the last retry_failed_downloads call did
    cleaned,          \* cleanup_stale_downloads has run in the current process
    ledger_raised,    \* a ledger operation has raised in the current process
    \* ---- DawsonScraper.run (scraper.py) ----
    rpc,              \* position of run() and _process_period
    periods,          \* generate_monthly_periods(start_date, end_date)
    pidx,             \* index of the period being processed (i of enumerate)
    download_pdfs,    \* argument of run()
    searches,         \* rows of the searches table, in insertion order
    sstats,           \* DawsonScraper.stats (ScraperStats)
    session,          \* APIClient.session: "none", "open" or "closed"
    \* ---- history ----
    span,             \* the start_date and end_date run() was called with
    sums,             \* sums of what each returned download_opinions call did
    escaped,          \* an exception has left run()
    \* ---- the clock of the event loop (RateLimiter) ----
    now,              \* asyncio.get_event_loop().time(), in ticks
    last_update,      \* RateLimiter.last_update
    \* ---- history ----
    grants            \* how many acquire() calls returned at each tick

fetchVars == <<response, fetched>>

clientVars == <<max_concurrent, semaphore, tokens, lock, lockWaiters, slept, late,
                pc, kind, attempt_number, netCalls, returned, issued, fetchVars>>

pipeVars == <<rows, ledger, disk, phase, mode, settings_skip, opinions,
              skip_existing, fresh, idx, exists, tasks, download_queue, unfinished,
              stats,
              wpc, wtask, wdata, woff, werr, orphan, pre, outcome, contacted, runs, starts,
              retried, cleaned, ledger_raised>>

runVars == <<rpc, periods, pidx, download_pdfs, searches, sstats, session,
             span, sums, escaped>>

clockVars == <<now, last_update, grants>>

vars == <<clientVars, pipeVars, runVars, clockVars>>

Max(a, b) == IF a >= b THEN a ELSE b
Min(a, b) == IF a <= b THEN a ELSE b

(***************************************************************************)
(* Bounds of the model.                                                    *)
(***************************************************************************)
NumCallers == 3
MaxK == 2
MaxCalls == 3

Callers == 1..NumCallers
NoOne == 0

(***************************************************************************)
(* RateLimiter (api_client.py:236-273).  Time is counted in ticks of       *)
(* period / (calls * TokenScale) seconds, so that one tick refills one     *)
(* unit of 1/TokenScale token.                                             *)
(***************************************************************************)
Calls == 10
Max_burst == 20
TokenScale == 2
TicksPerPeriod == Calls * TokenScale
MinWaitTicks == 1
MaxElapsed == Max_burst * TokenScale + TokenScale + 1
MaxNow == 4

\* The clock readings tried for now - last_update, given the least time that
\* has passed: no more than that, or one tick more.
Elapsed(least) == {least, Min(least + 1, MaxElapsed)}

\* tokens_to_add = elapsed * (calls / period), in token units
TokensToAdd(elapsed) == (elapsed * Calls * TokenScale) \div TicksPerPeriod

\* self.tokens = min(self.max_burst, self.tokens + tokens_to_add)
Refill(t, elapsed) == Min(Max_burst * TokenScale, t + TokensToAdd(elapsed))

\* wait_time = max(0.01, (1 - self.tokens) * (self.period / self.calls))
\* Mutant: the wait is always the minimum wait.
WaitTime_Minimum(t) == MinWaitTicks

\* wait_time = max(0.01, (1 - tokens) * (period / calls)), in ticks
WaitTime(t) == Max(MinWaitTicks, ((TokenScale - t) * TicksPerPeriod) \div (Calls * TokenScale))

\* while self.tokens <= 0
MustRefill(t) == t <= 0

(***************************************************************************)
(* APIClient._make_request under the tenacity decorator                    *)
(* (api_client.py:89-137) and APIClient.download_file (204-233).           *)
(***************************************************************************)
StopAfterAttempt == 3
Statuses == {200, 400, 500}
RetryTypes == {"timeout", "client_error"}

\* response.content.iter_chunked(chunk_size): a body arrives as up to
\* MaxChunks chunks, each a sequence of bytes.
MaxChunks == 2
Chunk == {<<1>>, <<2, 3>>}
ChunkSeqs == UNION {[1..n -> Chunk] : n \in 0..MaxChunks}

\* What the network does to one attempt.
RequestOutcomes ==
    [type : {"http"}, status : Statuses, chunks : {<<>>}]
    \cup [type : {"timeout", "client_error", "other"}, status : {0}, chunks : {<<>>}]

DownloadOutcomes ==
    [type : {"http"}, status : Statuses \ {400, 500}, chunks : ChunkSeqs]
    \cup [type : {"http"}, status : {400, 500}, chunks : {<<>>}]
    \cup [type : {"stream_error"}, status : Statuses \ {400, 500}, chunks : ChunkSeqs]
    \cup [type : {"timeout", "client_error"}, status : {0}, chunks : {<<>>}]

NoOutcome == [type |-> "none", status |-> 0, chunks |-> <<>>]

NoResult == [tag |-> "none", success |-> FALSE, status_code |-> -1, error |-> "", data |-> <<>>]

Response(ok, status, err) ==
    [tag |-> "response", success |-> ok, status_code |-> status, error |-> err, data |-> <<>>]

\* A call that has returned, as its caller sees it.
Returned(c, k, o, r, n) ==
    [caller |-> c, kind |-> k, outcome |-> o, result |-> r, netCalls |-> n]

NoReturn == Returned(NoOne, "request", NoOutcome, NoResult, 0)

Raised(exc) ==
    [tag |-> "raised", success |-> FALSE, status_code |-> -1, error |-> exc, data |-> <<>>]

Bytes(d) ==
    [tag |-> "bytes", success |-> TRUE, status_code |-> -1, error |-> "", data |-> d]

\* Mutant: the boundary status 400 counted as a success.
StatusOk_Inclusive(status) == status <= 400

\* success=response.status < 400
StatusOk(status) == status < 400

\* Mutant: the handler for asyncio.TimeoutError is missing.
Caught_NoTimeout(exc) == exc \in {"client_error", "other"}

\* The except clauses of _make_request: which exceptions become a Response.
Caught(exc) == exc \in {"timeout", "client_error", "other"}

\* The body of _make_request for one network outcome (lines 107-137).
RequestBody(o) ==
    IF o.type = "http"
    THEN Response(StatusOk(o.status), o.status,
                  IF StatusOk(o.status) THEN "" ELSE "HTTP")
    ELSE IF Caught(o.type)
         THEN Response(FALSE, -1,
                       CASE o.type = "timeout" -> "Timeout"
                         [] o.type = "client_error" -> "Client error"
                         [] OTHER -> "Unexpected error")
         ELSE Raised(o.type)

\* tenacity: retry_if_exception_type(...) with stop_after_attempt(3).
ShouldRetry(r, attempt) ==
    r.tag = "raised" /\ r.error \in RetryTypes /\ attempt < StopAfterAttempt

\* tenacity after the last attempt: RetryError wraps the exception.
AfterRetries(r, attempt) ==
    IF r.tag = "raised" /\ r.error \in RetryTypes /\ attempt >= StopAfterAttempt
    THEN Raised("RetryError")
    ELSE r

\* Mutant: the chunks are joined last first.
RECURSIVE Join_Reversed(_)
Join_Reversed(chunks) ==
    IF chunks = <<>> THEN <<>> ELSE Join_Reversed(Tail(chunks)) \o Head(chunks)

\* b"".join(chunks)
RECURSIVE Join(_)
Join(chunks) ==
    IF chunks = <<>> THEN <<>> ELSE Head(chunks) \o Join(Tail(chunks))

\* response.raise_for_status()
RaisesForStatus(status) == status >= 400

\* The body of download_file for one network outcome (lines 214-233):
\* every exception is logged and raised again.
DownloadBody(o) ==
    IF o.type = "http"
    THEN IF RaisesForStatus(o.status) THEN Raised("http_error") ELSE Bytes(Join(o.chunks))
    ELSE Raised(o.type)

(***************************************************************************)
(* APIClient.fetch_opinions (api_client.py:139-182): what it makes of the  *)
(* APIResponse of its one _make_request call.                              *)
(***************************************************************************)
MaxItems == 3

\* The docketEntryId values an item can carry.
DocketEntryIds ==
    {"6ba7b810-9dad-11d1-80b4-00c04fd430c8",
     "6ba7b811-9dad-11d1-80b4-00c04fd430c8",
     "12345"}

\* UUID(v) of Opinion.validate_uuid accepts the value.
IsUuid(v) ==
    v \in {"6ba7b810-9dad-11d1-80b4-00c04fd430c8",
           "6ba7b811-9dad-11d1-80b4-00c04fd430c8"}

\* An element of the response: a JSON object or not, with or without all the
\* required fields of Opinion, and with its docketEntryId.
Items == [object : BOOLEAN, complete : BOOLEAN, docketEntryId : DocketEntryIds]

ItemLists == UNION {[1..n -> Items] : n \in 0..MaxItems}

\* response.data: a list, a dict with or without the key "opinions", or
\* nothing.
Responses ==
    [success : BOOLEAN, shape : {"list", "dict_opinions", "dict_other"},
     items : ItemLists]

NoResponse == [success |-> FALSE, shape |-> "list", items |-> <<>>]

\* Opinion(**item) returns a record: the item is an object, has every
\* required field and its docketEntryId passes validate_uuid.
Parses(item) == item.object /\ item.complete /\ IsUuid(item.docketEntryId)

\* Mutant: the first item that fails to parse ends the loop.
RECURSIVE ParseAll_StopAtFirst(_)
ParseAll_StopAtFirst(items) ==
    IF items = <<>> THEN <<>>
    ELSE IF Parses(Head(items))
         THEN <<Head(items)>> \o ParseAll_StopAtFirst(Tail(items))
         ELSE <<>>

\* for item in opinions_data: try: opinions.append(Opinion(**item))
\* except Exception: logger.error(...)
RECURSIVE ParseAll(_)
ParseAll(items) ==
    IF items = <<>> THEN <<>>
    ELSE IF Parses(Head(items))
         THEN <<Head(items)>> \o ParseAll(Tail(items))
         ELSE ParseAll(Tail(items))

\* The body of fetch_opinions after _make_request has returned r.
FetchOpinions(r) ==
    IF r.success /\ r.items # <<>>
    THEN IF r.shape \in {"list", "dict_opinions"} THEN ParseAll(r.items) ELSE <<>>
    ELSE <<>>

\* fetch_opinions returns for the response r.  The call keeps no state, so
\* one call is followed from the initial state.
Fetch(r) ==
    /\ response = NoResponse
    /\ response' = r
    /\ fetched' = FetchOpinions(r)
    /\ UNCHANGED <<max_concurrent, semaphore, tokens, lock, lockWaiters, slept, late,
                   pc, kind, attempt_number, netCalls, returned, issued>>
    /\ UNCHANGED pipeVars
    /\ UNCHANGED runVars
    /\ UNCHANGED clockVars

\* A fresh limiter holds max_burst tokens; a client that has already served
\* max_burst - 1 requests holds one.
InitTokens == {Max_burst * TokenScale, TokenScale}

ClientInit ==
    /\ max_concurrent \in 1..MaxK
    /\ semaphore = max_concurrent
    /\ tokens \in InitTokens
    /\ lock = NoOne
    /\ lockWaiters = <<>>
    /\ slept = 0
    /\ late = FALSE
    /\ pc = [c \in Callers |-> "idle"]
    /\ kind = [c \in Callers |-> "request"]
    /\ attempt_number = [c \in Callers |-> 0]
    /\ netCalls = [c \in Callers |-> 0]
    /\ returned = NoReturn
    /\ issued = 0
    /\ response = NoResponse
    /\ fetched = <<>>

\* A caller invokes _make_request or download_file.
Call(c, k) ==
    /\ pc[c] = "idle"
    /\ issued < MaxCalls
    /\ issued' = issued + 1
    /\ pc' = [pc EXCEPT ![c] = "permit"]
    /\ kind' = [kind EXCEPT ![c] = k]
    /\ attempt_number' = [attempt_number EXCEPT ![c] = 1]
    /\ netCalls' = [netCalls EXCEPT ![c] = 0]
    /\ UNCHANGED <<max_concurrent, semaphore, tokens, lock, lockWaiters, slept, late,
                   returned>>
    /\ UNCHANGED pipeVars
    /\ UNCHANGED runVars
    /\ UNCHANGED clockVars
    /\ UNCHANGED fetchVars

\* Mutant: the permit count is tested off by one.
PermitFree_OffByOne == semaphore >= 0

\* asyncio.Semaphore.acquire: proceeds only while a permit is free.
PermitFree == semaphore > 0

\* Mutant: the network call follows the permit directly.
AfterPermit_NoToken == "net"

\* The statement that follows "async with self.semaphore":
\* await self._rate_limiter.acquire()
AfterPermit == "limiter"

\* async with self.semaphore (entry)
AcquirePermit(c) ==
    /\ pc[c] = "permit"
    /\ PermitFree
    /\ semaphore' = semaphore - 1
    /\ pc' = [pc EXCEPT ![c] = AfterPermit]
    /\ UNCHANGED <<max_concurrent, tokens, lock, lockWaiters, slept, late,
                   kind, attempt_number, netCalls, returned, issued>>
    /\ UNCHANGED pipeVars
    /\ UNCHANGED runVars
    /\ UNCHANGED clockVars
    /\ UNCHANGED fetchVars

\* Mutant: the token is deducted twice.
TakeToken_Twice(t) == t - 2 * TokenScale

\* self.tokens -= 1
TakeToken(t) == t - TokenScale

\* Mutant: the lock is given up for the time of the sleep.
SleepHolder_Released(c) == NoOne

\* await asyncio.sleep(wait_time) inside "async with self.lock": the holder
\* of the lock while c sleeps.
SleepHolder(c) == c

\* One pass of the lock holder through the loop of RateLimiter.acquire, run
\* without suspension: refill while tokens <= 0, then either sleep (keeping the
\* lock) or take a token and release the lock to the first waiter.
BucketStep(c, elapsed, least) ==
    LET refilled == IF MustRefill(tokens) THEN Refill(tokens, elapsed) ELSE tokens
    IN  /\ late' = (late \/ (MustRefill(tokens) /\ elapsed > least))
        /\ IF MustRefill(refilled)
           THEN /\ tokens' = refilled
                /\ slept' = WaitTime(refilled)
                /\ lock' = SleepHolder(c)
                /\ pc' = [pc EXCEPT ![c] = "sleep"]
                /\ UNCHANGED lockWaiters
           ELSE /\ tokens' = TakeToken(refilled)
                /\ slept' = 0
                /\ lock' = IF lockWaiters = <<>> THEN NoOne ELSE Head(lockWaiters)
                /\ lockWaiters' = IF lockWaiters = <<>> THEN <<>> ELSE Tail(lockWaiters)
                /\ pc' = [pc EXCEPT ![c] = "net"]

\* await self._rate_limiter.acquire(): the lock is free, or the caller queues.
AcquireToken(c) ==
    /\ pc[c] = "limiter"
    /\ IF lock = NoOne /\ lockWaiters = <<>>
       THEN \E elapsed \in Elapsed(0) : BucketStep(c, elapsed, 0)
       ELSE /\ lockWaiters' = Append(lockWaiters, c)
            /\ pc' = [pc EXCEPT ![c] = "lockwait"]
            /\ UNCHANGED <<tokens, lock, slept, late>>
    /\ UNCHANGED <<max_concurrent, semaphore, kind, attempt_number, netCalls,
                   returned, issued>>
    /\ UNCHANGED pipeVars
    /\ UNCHANGED runVars
    /\ UNCHANGED clockVars
    /\ UNCHANGED fetchVars

\* A waiter that was handed the lock resumes inside acquire.
LockGranted(c) ==
    /\ pc[c] = "lockwait"
    /\ lock = c
    /\ \E elapsed \in Elapsed(0) : BucketStep(c, elapsed, 0)
    /\ UNCHANGED <<max_concurrent, semaphore, kind, attempt_number, netCalls,
                   returned, issued>>
    /\ UNCHANGED pipeVars
    /\ UNCHANGED runVars
    /\ UNCHANGED clockVars
    /\ UNCHANGED fetchVars

\* asyncio.sleep(wait_time) returns after at least wait_time; the loop repeats.
Wake(c) ==
    /\ pc[c] = "sleep"
    /\ lock = c
    /\ \E elapsed \in Elapsed(slept) : BucketStep(c, elapsed, slept)
    /\ UNCHANGED <<max_concurrent, semaphore, kind, attempt_number, netCalls,
                   returned, issued>>
    /\ UNCHANGED pipeVars
    /\ UNCHANGED runVars
    /\ UNCHANGED clockVars
    /\ UNCHANGED fetchVars

\* The network call of _make_request ends with outcome o: the permit is
\* handed back, and the call is tried again by tenacity or returns.
RequestDone(c, o) ==
    /\ pc[c] = "net"
    /\ kind[c] = "request"
    /\ semaphore' = semaphore + 1
    /\ LET r == RequestBody(o)
       IN  IF ShouldRetry(r, attempt_number[c])
           THEN /\ attempt_number' = [attempt_number EXCEPT ![c] = @ + 1]
                /\ netCalls' = [netCalls EXCEPT ![c] = @ + 1]
                /\ pc' = [pc EXCEPT ![c] = "permit"]
                /\ UNCHANGED returned
           ELSE /\ returned' = Returned(c, "request", o,
                                        AfterRetries(r, attempt_number[c]),
                                        netCalls[c] + 1)
                /\ attempt_number' = [attempt_number EXCEPT ![c] = 0]
                /\ netCalls' = [netCalls EXCEPT ![c] = 0]
                /\ pc' = [pc EXCEPT ![c] = "idle"]
    /\ UNCHANGED <<max_concurrent, tokens, lock, lockWaiters, slept, late, kind,
                   issued>>
    /\ UNCHANGED pipeVars
    /\ UNCHANGED runVars
    /\ UNCHANGED clockVars
    /\ UNCHANGED fetchVars

\* The network call of download_file ends with outcome o: the permit is
\* handed back and the bytes are returned or the exception is raised.
DownloadDone(c, o) ==
    /\ pc[c] = "net"
    /\ kind[c] = "download"
    /\ semaphore' = semaphore + 1
    /\ returned' = Returned(c, "download", o, DownloadBody(o), netCalls[c] + 1)
    /\ attempt_number' = [attempt_number EXCEPT ![c] = 0]
    /\ netCalls' = [netCalls EXCEPT ![c] = 0]
    /\ kind' = [kind EXCEPT ![c] = "request"]
    /\ pc' = [pc EXCEPT ![c] = "idle"]
    /\ UNCHANGED <<max_concurrent, tokens, lock, lockWaiters, slept, late, issued>>
    /\ UNCHANGED pipeVars
    /\ UNCHANGED runVars
    /\ UNCHANGED clockVars
    /\ UNCHANGED fetchVars

(***************************************************************************)
(* The ledger: DatabaseManager (database.py).                              *)
(***************************************************************************)
NumRecords == 2
MaxWorkers == 2
MaxPayload == 2
MaxRuns == 2
MaxStarts == 2

Records == 1..NumRecords
Workers == 1..MaxWorkers
NoFile == -1
DefaultStaleHours == 24
DefaultMaxRetries == 3

Status == {"pending", "downloading", "completed", "failed", "skipped"}

TimeoutMarker == "Download timeout - marked as failed"

\* SQL NULL in an integer column.
Null == -1

\* A docket_entry_id without a row in the downloads table.  started_at and
\* completed_at are kept as "has been written".
AbsentRow ==
    [status |-> "absent", attempts |-> Null, started_at |-> FALSE,
     completed_at |-> FALSE, file_path |-> FALSE, file_size |-> 0,
     error_message |-> ""]

\* What a raw INSERT that does not name the attempts column stores in it.
\* attempts = Column(Integer, default=0) is a default of SQLAlchemy's own
\* inserts; create_all() writes no DEFAULT into the table, so sqlite stores
\* NULL.
AttemptsDefault == Null

\* record_opinion: INSERT OR IGNORE with status PENDING, attempts not named.
PendingRow == [AbsentRow EXCEPT !.status = "pending", !.attempts = AttemptsDefault]

RecordOpinion(l, id) ==
    IF l[id].status = "absent" THEN [l EXCEPT ![id] = PendingRow] ELSE l

RECURSIVE RecordAll(_, _)
RecordAll(l, list) ==
    IF list = <<>> THEN l ELSE RecordAll(RecordOpinion(l, Head(list)), Tail(list))

RECURSIVE InsertAll(_, _)
InsertAll(rs, list) ==
    IF list = <<>> THEN rs
    ELSE InsertAll(IF \E i \in 1..Len(rs) : rs[i] = Head(list)
                   THEN rs ELSE Append(rs, Head(list)),
                   Tail(list))

\* SQL "attempts + 1": NULL + 1 is NULL.
SqlPlusOne(a) == IF a = Null THEN Null ELSE a + 1

\* updates = ["status = ?", "attempts = attempts + 1"]
SetStatus(row, st) == [row EXCEPT !.status = st, !.attempts = SqlPlusOne(@)]

\* update_download_status: one UPDATE of the row with that docket_entry_id.
\* Falsy arguments (None, "", 0) leave their column alone.
UpdateDownloadStatus(l, id, st, path, size, err) ==
    IF l[id].status = "absent" THEN l
    ELSE [l EXCEPT ![id] =
            [SetStatus(@, st) EXCEPT
                !.file_path = IF path THEN TRUE ELSE @,
                !.file_size = IF size # 0 THEN size ELSE @,
                !.error_message = IF err # "" THEN err ELSE @,
                !.started_at = IF st = "downloading" THEN TRUE ELSE @,
                !.completed_at = IF st \in {"completed", "failed"} THEN TRUE ELSE @]]

\* Mutant: a row already skipped counts as downloaded, a completed one does not.
CheckAlreadyDownloaded_Skipped(l, id) == l[id].status = "skipped"

\* check_already_downloaded: the row exists and its status is COMPLETED.
CheckAlreadyDownloaded(l, id) == l[id].status = "completed"

\* started_at < datetime('now', '-{hours} hours'): started_at is the local
\* datetime.now() of the writer, 'now' is UTC, so `elapsed` is the age the
\* comparison sees, in hours: the true age shifted by the UTC offset.
OlderThan(elapsed, hours) == elapsed > hours

\* The age the comparison sees for a row started `age` hours ago by a writer
\* whose clock is `offset` hours ahead of UTC: datetime.now() is naive local
\* time, datetime('now') is UTC.
SeenAge(age, offset) == age - offset

\* cleanup_stale_downloads: one UPDATE over all stale DOWNLOADING rows.
IsStale(row, hours, elapsed) ==
    row.status = "downloading" /\ row.started_at /\ OlderThan(elapsed, hours)

CleanupStaleDownloads(l, hours, elapsed) ==
    [id \in Records |->
        IF IsStale(l[id], hours, elapsed)
        THEN [l[id] EXCEPT !.status = "failed", !.error_message = TimeoutMarker]
        ELSE l[id]]

\* The ttl values passed to cleanup_stale_downloads, the ages of the rows it
\* meets and the UTC offsets of the machine, in hours.
StaleHours == {0, DefaultStaleHours}
Ages == {0, 1, DefaultStaleHours, DefaultStaleHours + 1}
UtcOffsets == {-1, 0, 1}

\* get_pending_downloads: rows in status PENDING or FAILED, by created_at.
RECURSIVE GetPendingDownloads(_, _)
GetPendingDownloads(rs, l) ==
    IF rs = <<>> THEN <<>>
    ELSE IF l[Head(rs)].status \in {"pending", "failed"}
         THEN <<Head(rs)>> \o GetPendingDownloads(Tail(rs), l)
         ELSE GetPendingDownloads(Tail(rs), l)

\* What sqlite3 hands back for the filing_date column of a row: the text the
\* datetime of record_opinion was stored as (the connection registers no
\* converter).
FilingDateColumn == "str"

\* record["filing_date"].isoformat(): only a datetime has isoformat(), on a
\* str it raises AttributeError.
IsoformatRaises(v) == v # "datetime"

\* Mutant: every pending row is retried, whatever its attempt count.
BelowMaxRetries_NoCeiling(list, l, max_retries) == list

\* record["attempts"] < max_retries: None < int raises TypeError.
LessThanRaises(a) == a = Null

\* retry_failed_downloads builds an Opinion from each row, drops the rows for
\* which that or the comparison of attempts raises, and keeps the ones with
\* attempts < max_retries.
RECURSIVE BelowMaxRetries(_, _, _)
BelowMaxRetries(list, l, max_retries) ==
    IF list = <<>> THEN <<>>
    ELSE IF /\ ~IsoformatRaises(FilingDateColumn)
            /\ ~LessThanRaises(l[Head(list)].attempts)
            /\ l[Head(list)].attempts < max_retries
         THEN <<Head(list)>> \o BelowMaxRetries(Tail(list), l, max_retries)
         ELSE BelowMaxRetries(Tail(list), l, max_retries)

(***************************************************************************)
(* ParallelDownloader (downloader.py) inside one DawsonScraper process.    *)
(***************************************************************************)
ZeroStats == [successful |-> 0, failed |-> 0, skipped |-> 0, total_bytes |-> 0]

\* The lists of opinions handed to download_opinions: non-empty, one entry
\* per document, in the order of the identities.
OpinionLists ==
    {q \in UNION {[1..n -> Records] : n \in 1..NumRecords} :
        \A i, j \in 1..Len(q) : i < j => q[i] < q[j]}

\* str(e) of the exceptions a task can raise: the ValueError texts of
\* _process_download and the texts of I/O errors are not empty; an
\* asyncio.TimeoutError raised by download_file has the empty text.
TaskError == "task error"

\* raise ValueError("No data received")
NoDataReceived == "No data received"

ExceptionTexts == {TaskError, ""}

\* A process that is not running holds nothing in memory.
MemoryReset ==
    /\ cleaned' = FALSE
    /\ ledger_raised' = FALSE
    /\ mode' = "run"
    /\ settings_skip' = TRUE
    /\ opinions' = <<>>
    /\ skip_existing' = FALSE
    /\ fresh' = FALSE
    /\ idx' = 0
    /\ exists' = FALSE
    /\ tasks' = 0
    /\ download_queue' = <<>>
    /\ unfinished' = 0
    /\ stats' = ZeroStats
    /\ wpc' = [w \in Workers |-> "off"]
    /\ wtask' = [w \in Workers |-> 0]
    /\ wdata' = [w \in Workers |-> 0]
    /\ woff' = [w \in Workers |-> 0]
    /\ werr' = [w \in Workers |-> ""]
    /\ pre' = [id \in Records |-> "none"]
    /\ outcome' = [id \in Records |-> "none"]
    /\ contacted' = [id \in Records |-> FALSE]

\* ScraperStats(): every counter starts at 0.
ZeroScraperStats ==
    [total_periods |-> 0, successful_searches |-> 0, failed_searches |-> 0,
     total_opinions |-> 0, successful_downloads |-> 0, failed_downloads |-> 0,
     skipped_downloads |-> 0, total_bytes_downloaded |-> 0]

\* The limiter is made when the clock reads 0.
ClockZero ==
    /\ now = 0
    /\ last_update = 0
    /\ grants = [t \in 0..MaxNow |-> 0]

\* The orchestrator before run() is called.
RunIdle ==
    /\ rpc = "idle"
    /\ periods = <<>>
    /\ pidx = 0
    /\ download_pdfs = FALSE
    /\ searches = <<>>
    /\ sstats = ZeroScraperStats
    /\ session = "none"
    /\ span = <<>>
    /\ sums = ZeroStats
    /\ escaped = FALSE

PipeInit ==
    /\ rows = <<>>
    /\ ledger = [id \in Records |-> AbsentRow]
    /\ disk = [id \in Records |-> NoFile]
    /\ phase = "down"
    /\ mode = "run"
    /\ settings_skip = TRUE
    /\ opinions = <<>>
    /\ skip_existing = FALSE
    /\ fresh = FALSE
    /\ idx = 0
    /\ exists = FALSE
    /\ tasks = 0
    /\ download_queue = <<>>
    /\ unfinished = 0
    /\ stats = ZeroStats
    /\ wpc = [w \in Workers |-> "off"]
    /\ wtask = [w \in Workers |-> 0]
    /\ wdata = [w \in Workers |-> 0]
    /\ woff = [w \in Workers |-> 0]
    /\ werr = [w \in Workers |-> ""]
    /\ orphan = [id \in Records |-> "no"]
    /\ pre = [id \in Records |-> "none"]
    /\ outcome = [id \in Records |-> "none"]
    /\ contacted = [id \in Records |-> FALSE]
    /\ runs = 0
    /\ starts = 0
    /\ retried = "no"
    /\ cleaned = FALSE
    /\ ledger_raised = FALSE

\* run.py main: a process starts in one of its modes; DawsonScraper.__init__
\* builds a fresh ParallelDownloader.
StartProcess(m, s) ==
    /\ phase = "down"
    /\ starts < MaxStarts
    /\ starts' = starts + 1
    /\ retried' = "no"
    /\ mode' = m
    /\ settings_skip' = s
    /\ phase' = IF m = "run" THEN "cleanup" ELSE "ready"
    /\ UNCHANGED <<rows, ledger, disk, opinions, skip_existing, fresh, idx, exists, tasks,
                   download_queue, unfinished, stats, wpc, wtask, wdata, woff, werr,
                   orphan, pre, outcome, contacted, runs, cleaned,
                   ledger_raised>>
    /\ UNCHANGED clientVars
    /\ UNCHANGED runVars
    /\ UNCHANGED clockVars

\* DawsonScraper.run: await db_manager.cleanup_stale_downloads(hours), with
\* the rows of earlier processes started `age` hours ago on a clock `offset`
\* hours ahead of UTC.
Cleanup(hours, age, offset) ==
    /\ phase = "cleanup"
    /\ ledger' = CleanupStaleDownloads(ledger, hours, SeenAge(age, offset))
    /\ orphan' = [id \in Records |->
                    IF orphan[id] = "crashed" /\ hours = 0 THEN "reconciled"
                    ELSE orphan[id]]
    /\ phase' = "ready"
    /\ cleaned' = TRUE
    /\ UNCHANGED ledger_raised
    /\ UNCHANGED <<rows, disk, mode, settings_skip, opinions, skip_existing, fresh, idx,
                   exists, tasks, download_queue, unfinished, stats, wpc, wtask,
                   wdata, woff, werr, pre, outcome, contacted, runs, starts,
                   retried>>
    /\ UNCHANGED clientVars
    /\ UNCHANGED runVars
    /\ UNCHANGED clockVars

\* The process is killed: memory is lost, ledger and files stay as they are.
Crash ==
    /\ phase # "down"
    /\ phase' = "down"
    /\ MemoryReset
    /\ orphan' = [id \in Records |->
                    IF ledger[id].status = "downloading" THEN "crashed"
                    ELSE orphan[id]]
    /\ UNCHANGED <<rows, ledger, disk, runs, starts,
                   retried>>
    /\ UNCHANGED clientVars
    /\ UNCHANGED runVars
    /\ UNCHANGED clockVars

\* The process ends after its last period.
Exit ==
    /\ phase = "ready"
    /\ mode # "resume"
    /\ phase' = "down"
    /\ MemoryReset
    /\ UNCHANGED <<rows, ledger, disk, orphan, runs, starts,
                   retried>>
    /\ UNCHANGED clientVars
    /\ UNCHANGED runVars
    /\ UNCHANGED clockVars

\* What ledger and disk say of a record when a call begins.
Snapshot(l, d, id) ==
    IF l[id].status = "completed" /\ d[id] > 0 THEN "both" ELSE "other"

\* Entry of download_opinions(list, skip).
EnterDownloadOpinions(list, skip) ==
    /\ runs' = runs + 1
    /\ opinions' = list
    /\ skip_existing' = skip
    /\ fresh' = (stats = ZeroStats)
    /\ idx' = 1
    /\ exists' = FALSE
    /\ tasks' = 0
    /\ phase' = "preflight"
    /\ outcome' = [id \in Records |-> "none"]
    /\ contacted' = [id \in Records |-> FALSE]

\* DawsonScraper._process_period / process_existing_json: the opinions of one
\* period are recorded in the ledger and handed to download_opinions.
BeginRun(list) ==
    /\ phase = "ready"
    /\ mode \in {"run", "pdfs_only"}
    /\ runs < MaxRuns
    /\ rows' = InsertAll(rows, list)
    /\ ledger' = RecordAll(ledger, list)
    /\ pre' = [id \in Records |->
                IF \E i \in 1..Len(list) : list[i] = id
                THEN Snapshot(ledger', disk, id) ELSE "none"]
    /\ EnterDownloadOpinions(list, IF mode = "run" THEN settings_skip ELSE TRUE)
    /\ UNCHANGED <<disk, mode, settings_skip, download_queue, unfinished, stats,
                   wpc, wtask, wdata, woff, werr, orphan, starts,
                   retried, cleaned,
                   ledger_raised>>
    /\ UNCHANGED clientVars
    /\ UNCHANGED runVars
    /\ UNCHANGED clockVars

\* DawsonScraper.resume_interrupted -> retry_failed_downloads(max_retries=3):
\* the pending rows that parse as an Opinion and are below the retry ceiling
\* are downloaded again with skip_existing=False; with nothing to retry the
\* process ends.
RetryFailedDownloads ==
    /\ phase = "ready"
    /\ mode = "resume"
    /\ LET list == BelowMaxRetries(GetPendingDownloads(rows, ledger), ledger,
                                   DefaultMaxRetries)
       IN  IF list = <<>>
           THEN /\ phase' = "down"
                /\ MemoryReset
                /\ retried' = "nothing"
                /\ UNCHANGED runs
           ELSE /\ retried' = "dispatched"
                /\ pre' = [id \in Records |->
                            IF \E i \in 1..Len(list) : list[i] = id
                            THEN Snapshot(ledger, disk, id) ELSE "none"]
                /\ EnterDownloadOpinions(list, FALSE)
                /\ UNCHANGED <<mode, settings_skip, download_queue, unfinished,
                               stats, wpc, wtask, wdata, woff, werr, cleaned,
                   ledger_raised>>
    /\ UNCHANGED <<rows, ledger, disk, orphan, starts>>
    /\ UNCHANGED clientVars
    /\ UNCHANGED runVars
    /\ UNCHANGED clockVars

\* Mutant: a file on disk counts whatever its size.
FileOnDisk_AnySize(d, id, settingsSkip) == settingsSkip /\ d[id] # NoFile

\* _check_file_exists, second half: settings.skip_existing and the file is on
\* disk with a size above 0.
FileOnDisk(d, id, settingsSkip) == settingsSkip /\ d[id] # NoFile /\ d[id] > 0

\* _check_file_exists: the ledger says COMPLETED, or the file is on disk.
CheckFileExists(l, d, id, settingsSkip) ==
    CheckAlreadyDownloaded(l, id) \/ FileOnDisk(d, id, settingsSkip)

\* download_opinions, pre-flight with skip_existing: _check_file_exists for
\* opinions[idx]; a file found on disk is written to the ledger as COMPLETED.
PreflightCheck ==
    /\ phase = "preflight"
    /\ idx <= Len(opinions)
    /\ skip_existing
    /\ LET id == opinions[idx]
           fromDisk == ~CheckAlreadyDownloaded(ledger, id)
                       /\ FileOnDisk(disk, id, settings_skip)
       IN  /\ exists' = CheckFileExists(ledger, disk, id, settings_skip)
           /\ ledger' = IF fromDisk
                        THEN UpdateDownloadStatus(ledger, id, "completed", TRUE, disk[id], "")
                        ELSE ledger
    /\ phase' = "checked"
    /\ UNCHANGED <<rows, disk, mode, settings_skip, opinions, skip_existing, fresh, idx,
                   tasks, download_queue, unfinished, stats, wpc, wtask, wdata, woff, werr,
                   orphan, pre, outcome, contacted, runs, starts,
                   retried, cleaned,
                   ledger_raised>>
    /\ UNCHANGED clientVars
    /\ UNCHANGED runVars
    /\ UNCHANGED clockVars

\* download_opinions, pre-flight: the record exists, so it is counted as
\* skipped, written SKIPPED to the ledger and left out of the queue.
PreflightSkip ==
    /\ phase = "checked"
    /\ exists
    /\ LET id == opinions[idx]
       IN  /\ stats' = [stats EXCEPT !.skipped = @ + 1]
           /\ ledger' = UpdateDownloadStatus(ledger, id, "skipped", FALSE, 0, "")
           /\ outcome' = [outcome EXCEPT ![id] = "skipped"]
    /\ idx' = idx + 1
    /\ phase' = "preflight"
    /\ UNCHANGED <<rows, disk, mode, settings_skip, opinions, skip_existing, fresh,
                   exists, tasks, download_queue, unfinished, wpc, wtask, wdata, woff, werr,
                   orphan, pre, contacted, runs, starts,
                   retried, cleaned,
                   ledger_raised>>
    /\ UNCHANGED clientVars
    /\ UNCHANGED runVars
    /\ UNCHANGED clockVars

\* download_opinions, pre-flight: a DownloadTask is put on the queue.
PreflightEnqueue ==
    /\ \/ phase = "checked" /\ ~exists
       \/ phase = "preflight" /\ idx <= Len(opinions) /\ ~skip_existing
    /\ download_queue' = Append(download_queue, opinions[idx])
    /\ unfinished' = unfinished + 1
    /\ tasks' = tasks + 1
    /\ idx' = idx + 1
    /\ phase' = "preflight"
    /\ UNCHANGED <<rows, ledger, disk, mode, settings_skip, opinions,
                   skip_existing, fresh, exists, stats, wpc, wtask, wdata, woff, werr,
                   orphan, pre, outcome, contacted, runs, starts,
                   retried, cleaned,
                   ledger_raised>>
    /\ UNCHANGED clientVars
    /\ UNCHANGED runVars
    /\ UNCHANGED clockVars

\* download_opinions after the loop: without tasks it returns self.stats, else
\* it starts min(max_workers, len(tasks)) workers and waits on queue.join().
PreflightEnd ==
    /\ phase = "preflight"
    /\ idx > Len(opinions)
    /\ IF tasks = 0
       THEN /\ phase' = "returned"
            /\ UNCHANGED wpc
       ELSE /\ phase' = "join"
            /\ wpc' = [w \in Workers |-> IF w <= Min(MaxWorkers, tasks) THEN "get" ELSE "off"]
    /\ UNCHANGED <<rows, ledger, disk, mode, settings_skip, opinions,
                   skip_existing, fresh, idx, exists, tasks, download_queue, unfinished,
                   stats, wtask, wdata, woff, werr, orphan, pre, outcome, contacted, runs, starts,
                   retried, cleaned,
                   ledger_raised>>
    /\ UNCHANGED clientVars
    /\ UNCHANGED runVars
    /\ UNCHANGED clockVars

\* _download_worker takes the next task from the queue and _process_download
\* writes its record DOWNLOADING.
WorkerTake(w) ==
    /\ phase = "join"
    /\ wpc[w] = "get"
    /\ download_queue # <<>>
    /\ wtask' = [wtask EXCEPT ![w] = Head(download_queue)]
    /\ download_queue' = Tail(download_queue)
    /\ ledger' = UpdateDownloadStatus(ledger, Head(download_queue), "downloading", FALSE, 0, "")
    /\ wpc' = [wpc EXCEPT ![w] = "url"]
    /\ UNCHANGED <<rows, disk, phase, mode, settings_skip, opinions,
                   skip_existing, fresh, idx, exists, tasks, unfinished, stats, wdata, woff, werr,
                   orphan, pre, outcome, contacted, runs, starts,
                   retried, cleaned,
                   ledger_raised>>
    /\ UNCHANGED clientVars
    /\ UNCHANGED runVars
    /\ UNCHANGED clockVars

\* _process_download: get_document_url returns a URL or None; None raises
\* ValueError("Failed to get download URL").
WorkerUrl(w, found) ==
    /\ phase = "join"
    /\ wpc[w] = "url"
    /\ contacted' = [contacted EXCEPT ![wtask[w]] = TRUE]
    /\ wpc' = [wpc EXCEPT ![w] = IF found THEN "download" ELSE "fail"]
    /\ werr' = [werr EXCEPT ![w] = IF found THEN "" ELSE TaskError]
    /\ UNCHANGED <<rows, ledger, disk, phase, mode, settings_skip, opinions,
                   skip_existing, fresh, idx, exists, tasks, download_queue, unfinished,
                   stats, wtask, wdata, woff, orphan, pre, outcome, runs, starts,
                   retried, cleaned,
                   ledger_raised>>
    /\ UNCHANGED clientVars
    /\ UNCHANGED runVars
    /\ UNCHANGED clockVars

\* _process_download: download_file returns the bytes, or raises an exception
\* whose str() is text (size = -1); an empty payload raises
\* ValueError("No data received").
WorkerDownload(w, size, text) ==
    /\ phase = "join"
    /\ wpc[w] = "download"
    /\ wdata' = [wdata EXCEPT ![w] = IF size > 0 THEN size ELSE 0]
    /\ woff' = [woff EXCEPT ![w] = 0]
    /\ werr' = [werr EXCEPT ![w] =
                  IF size > 0 THEN "" ELSE IF size = 0 THEN NoDataReceived ELSE text]
    /\ wpc' = [wpc EXCEPT ![w] = IF size > 0 THEN "open" ELSE "fail"]
    /\ UNCHANGED <<rows, ledger, disk, phase, mode, settings_skip, opinions,
                   skip_existing, fresh, idx, exists, tasks, download_queue, unfinished,
                   stats, wtask, orphan, pre, outcome, contacted, runs, starts,
                   retried, cleaned,
                   ledger_raised>>
    /\ UNCHANGED clientVars
    /\ UNCHANGED runVars
    /\ UNCHANGED clockVars

\* _save_file: aiofiles.open(file_path, "wb") creates or truncates the file,
\* or raises.
WorkerOpen(w, ok) ==
    /\ phase = "join"
    /\ wpc[w] = "open"
    /\ disk' = IF ok THEN [disk EXCEPT ![wtask[w]] = 0] ELSE disk
    /\ wpc' = [wpc EXCEPT ![w] = IF ok THEN "write" ELSE "fail"]
    /\ wdata' = [wdata EXCEPT ![w] = IF ok THEN @ ELSE 0]
    /\ woff' = [woff EXCEPT ![w] = 0]
    /\ werr' = [werr EXCEPT ![w] = IF ok THEN "" ELSE TaskError]
    /\ UNCHANGED <<rows, ledger, phase, mode, settings_skip, opinions,
                   skip_existing, fresh, idx, exists, tasks, download_queue, unfinished,
                   stats, wtask, orphan, pre, outcome, contacted, runs, starts,
                   retried, cleaned,
                   ledger_raised>>
    /\ UNCHANGED clientVars
    /\ UNCHANGED runVars
    /\ UNCHANGED clockVars

\* _save_file: await f.write(data) puts the bytes on disk one after the other
\* from the start of the file this worker opened, or raises and leaves what
\* was written.
WorkerWrite(w, ok) ==
    /\ phase = "join"
    /\ wpc[w] = "write"
    /\ disk' = IF ok THEN [disk EXCEPT ![wtask[w]] = Max(@, woff[w] + 1)] ELSE disk
    /\ wpc' = [wpc EXCEPT ![w] =
                 IF ~ok THEN "fail"
                 ELSE IF woff[w] + 1 = wdata[w] THEN "complete" ELSE "write"]
    /\ wdata' = [wdata EXCEPT ![w] = IF ok THEN @ ELSE 0]
    /\ woff' = [woff EXCEPT ![w] = IF ok THEN @ + 1 ELSE 0]
    /\ werr' = [werr EXCEPT ![w] = IF ok THEN "" ELSE TaskError]
    /\ UNCHANGED <<rows, ledger, phase, mode, settings_skip, opinions,
                   skip_existing, fresh, idx, exists, tasks, download_queue, unfinished,
                   stats, wtask, orphan, pre, outcome, contacted, runs, starts,
                   retried, cleaned,
                   ledger_raised>>
    /\ UNCHANGED clientVars
    /\ UNCHANGED runVars
    /\ UNCHANGED clockVars

\* Mutant: a success is counted but its bytes are not.
CountSuccessful_NoBytes(st, size) == [st EXCEPT !.successful = @ + 1]

\* self.stats["successful"] += 1; self.stats["total_bytes"] += len(file_data)
CountSuccessful(st, size) ==
    [st EXCEPT !.successful = @ + 1, !.total_bytes = @ + size]

\* _process_download, success: the record is written COMPLETED with path and
\* size and the statistics are raised; _download_worker calls task_done() and
\* sleeps rate_limit_delay before it takes its next task.
WorkerComplete(w) ==
    /\ phase = "join"
    /\ wpc[w] = "complete"
    /\ ledger' = UpdateDownloadStatus(ledger, wtask[w], "completed", TRUE, wdata[w], "")
    /\ stats' = CountSuccessful(stats, wdata[w])
    /\ outcome' = [outcome EXCEPT ![wtask[w]] = "successful"]
    /\ orphan' = [orphan EXCEPT ![wtask[w]] = "no"]
    /\ unfinished' = unfinished - 1
    /\ wpc' = [wpc EXCEPT ![w] = "get"]
    /\ wtask' = [wtask EXCEPT ![w] = 0]
    /\ wdata' = [wdata EXCEPT ![w] = 0]
    /\ woff' = [woff EXCEPT ![w] = 0]
    /\ werr' = [werr EXCEPT ![w] = ""]
    /\ UNCHANGED <<rows, disk, phase, mode, settings_skip, opinions,
                   skip_existing, fresh, idx, exists, tasks, download_queue, pre,
                   contacted, runs, starts,
                   retried, cleaned,
                   ledger_raised>>
    /\ UNCHANGED clientVars
    /\ UNCHANGED runVars
    /\ UNCHANGED clockVars

\* _process_download, except Exception: the record is written FAILED with the
\* error text and failed is raised; _download_worker calls task_done() and
\* sleeps rate_limit_delay before it takes its next task.
WorkerFail(w) ==
    /\ phase = "join"
    /\ wpc[w] = "fail"
    /\ ledger' = UpdateDownloadStatus(ledger, wtask[w], "failed", FALSE, 0, werr[w])
    /\ stats' = [stats EXCEPT !.failed = @ + 1]
    /\ outcome' = [outcome EXCEPT ![wtask[w]] = "failed"]
    /\ unfinished' = unfinished - 1
    /\ wpc' = [wpc EXCEPT ![w] = "get"]
    /\ wtask' = [wtask EXCEPT ![w] = 0]
    /\ wdata' = [wdata EXCEPT ![w] = 0]
    /\ woff' = [woff EXCEPT ![w] = 0]
    /\ werr' = [werr EXCEPT ![w] = ""]
    /\ UNCHANGED <<rows, disk, phase, mode, settings_skip, opinions,
                   skip_existing, fresh, idx, exists, tasks, download_queue, orphan, pre,
                   contacted, runs, starts,
                   retried, cleaned,
                   ledger_raised>>
    /\ UNCHANGED clientVars
    /\ UNCHANGED runVars
    /\ UNCHANGED clockVars

\* Mutant: join() returns as soon as the queue holds no task.
QueueJoined_Empty == download_queue = <<>>

\* asyncio.Queue.join(): returns once task_done() was called for every task
\* that was put.
QueueJoined == unfinished = 0

\* download_opinions: queue.join() returns once every task is done; the
\* workers are cancelled and gathered, and self.stats is returned.
JoinDone ==
    /\ phase = "join"
    /\ QueueJoined
    /\ wpc' = [w \in Workers |-> "off"]
    /\ phase' = "returned"
    /\ UNCHANGED <<rows, ledger, disk, mode, settings_skip, opinions,
                   skip_existing, fresh, idx, exists, tasks, download_queue, unfinished,
                   stats, wtask, wdata, woff, werr, orphan, pre, outcome, contacted, runs, starts,
                   retried, cleaned,
                   ledger_raised>>
    /\ UNCHANGED clientVars
    /\ UNCHANGED runVars
    /\ UNCHANGED clockVars

\* The caller has the statistics: the orchestrator goes on to its next period;
\* resume_interrupted ends the process.
AfterReturn ==
    /\ phase = "returned"
    /\ IF mode = "resume"
       THEN /\ phase' = "down"
            /\ MemoryReset
       ELSE /\ phase' = "ready"
            /\ UNCHANGED <<mode, settings_skip, opinions, skip_existing, fresh, idx,
                           exists, tasks, download_queue, unfinished, stats,
                           wpc, wtask, wdata, woff, werr, pre, outcome, contacted,
                           cleaned,
                   ledger_raised>>
    /\ UNCHANGED <<rows, ledger, disk, orphan, runs, starts,
                   retried>>
    /\ UNCHANGED clientVars
    /\ UNCHANGED runVars
    /\ UNCHANGED clockVars

NextClient ==
    \/ \E c \in Callers, k \in {"request", "download"} : Call(c, k)
    \/ \E c \in Callers : AcquirePermit(c)
    \/ \E c \in Callers : AcquireToken(c)
    \/ \E c \in Callers : LockGranted(c)
    \/ \E c \in Callers : Wake(c)
    \/ \E c \in Callers, o \in RequestOutcomes : RequestDone(c, o)
    \/ \E c \in Callers, o \in DownloadOutcomes : DownloadDone(c, o)

InitClient == ClientInit /\ PipeInit /\ RunIdle /\ ClockZero

SpecClient == InitClient /\ [][NextClient]_vars

\* The pipeline is checked with an idle client.
ClientIdle ==
    /\ max_concurrent = MaxK
    /\ semaphore = MaxK
    /\ tokens = Max_burst * TokenScale
    /\ lock = NoOne
    /\ lockWaiters = <<>>
    /\ slept = 0
    /\ late = FALSE
    /\ pc = [c \in Callers |-> "idle"]
    /\ kind = [c \in Callers |-> "request"]
    /\ attempt_number = [c \in Callers |-> 0]
    /\ netCalls = [c \in Callers |-> 0]
    /\ returned = NoReturn
    /\ issued = 0
    /\ response = NoResponse
    /\ fetched = <<>>

InitPipeline == ClientIdle /\ PipeInit /\ RunIdle /\ ClockZero

NextPipeline ==
    \/ \E m \in {"run", "resume", "pdfs_only"}, s \in BOOLEAN : StartProcess(m, s)
    \/ \E hours \in StaleHours, age \in Ages, offset \in UtcOffsets :
          Cleanup(hours, age, offset)
    \/ Crash
    \/ Exit
    \/ \E list \in OpinionLists : BeginRun(list)
    \/ RetryFailedDownloads
    \/ PreflightCheck
    \/ PreflightSkip
    \/ PreflightEnqueue
    \/ PreflightEnd
    \/ \E w \in Workers : WorkerTake(w)
    \/ \E w \in Workers, found \in BOOLEAN : WorkerUrl(w, found)
    \/ \E w \in Workers, size \in -1..MaxPayload, text \in ExceptionTexts :
          WorkerDownload(w, size, text)
    \/ \E w \in Workers, ok \in BOOLEAN : WorkerOpen(w, ok)
    \/ \E w \in Workers, ok \in BOOLEAN : WorkerWrite(w, ok)
    \/ \E w \in Workers : WorkerComplete(w)
    \/ \E w \in Workers : WorkerFail(w)
    \/ JoinDone
    \/ AfterReturn

SpecPipeline == InitPipeline /\ [][NextPipeline]_vars

(***************************************************************************)
(* The pipeline with a ledger whose operations can raise.                  *)
(***************************************************************************)
LedgerError == "ledger error"

\* A ledger write of _process_download raises: the DOWNLOADING write of a task
\* just taken, the COMPLETED write or the FAILED write.  A raise inside the try
\* block is handled as a task failure, by the FAILED write; if that write
\* raises too (again), or was the one that raised, the exception leaves
\* _process_download, _download_worker logs it, skips task_done() and takes
\* its next task.
WorkerLedgerError(w, again) ==
    /\ phase = "join"
    /\ \/ wpc[w] = "get" /\ download_queue # <<>>
       \/ wpc[w] \in {"complete", "fail"}
    /\ LET id == IF wpc[w] = "get" THEN Head(download_queue) ELSE wtask[w]
           logged == again \/ wpc[w] = "fail"
       IN  /\ download_queue' = IF wpc[w] = "get" THEN Tail(download_queue)
                                ELSE download_queue
           /\ ledger' = IF logged THEN ledger
                        ELSE UpdateDownloadStatus(ledger, id, "failed", FALSE, 0, LedgerError)
           /\ stats' = IF logged THEN stats ELSE [stats EXCEPT !.failed = @ + 1]
           /\ outcome' = IF logged THEN outcome ELSE [outcome EXCEPT ![id] = "failed"]
           /\ unfinished' = IF logged THEN unfinished ELSE unfinished - 1
    /\ wpc' = [wpc EXCEPT ![w] = "get"]
    /\ wtask' = [wtask EXCEPT ![w] = 0]
    /\ wdata' = [wdata EXCEPT ![w] = 0]
    /\ woff' = [woff EXCEPT ![w] = 0]
    /\ werr' = [werr EXCEPT ![w] = ""]
    /\ ledger_raised' = TRUE
    /\ UNCHANGED <<rows, disk, phase, mode, settings_skip, opinions,
                   skip_existing, fresh, idx, exists, tasks, orphan, pre,
                   contacted, runs, starts, retried, cleaned>>
    /\ UNCHANGED clientVars
    /\ UNCHANGED runVars
    /\ UNCHANGED clockVars

\* A ledger operation of the pre-flight loop raises (check_already_downloaded
\* or a status write): the exception leaves download_opinions.
\* _process_period catches it and writes the audit row of the failed period;
\* if that write raises too (again) the exception leaves run(), else the next
\* period follows.  process_existing_json logs it and goes to its next file.
\* The raise is explored while the call has put no task on the queue yet.
PreflightLedgerError(again) ==
    /\ \/ phase = "preflight" /\ idx <= Len(opinions) /\ skip_existing
       \/ phase = "checked" /\ exists
    /\ tasks = 0
    /\ phase' = IF mode = "run" /\ again THEN "fatal" ELSE "ready"
    /\ ledger_raised' = TRUE
    /\ UNCHANGED <<rows, ledger, disk, mode, settings_skip, opinions,
                   skip_existing, fresh, idx, exists, tasks, download_queue, unfinished,
                   stats, wpc, wtask, wdata, woff, werr, orphan, pre, outcome, contacted,
                   runs, starts, retried, cleaned>>
    /\ UNCHANGED clientVars
    /\ UNCHANGED runVars
    /\ UNCHANGED clockVars

NextLedgerFaults ==
    \/ NextPipeline
    \/ \E w \in Workers, again \in BOOLEAN : WorkerLedgerError(w, again)
    \/ \E again \in BOOLEAN : PreflightLedgerError(again)

SpecLedgerFaults == InitPipeline /\ [][NextLedgerFaults]_vars

(***************************************************************************)
(* The pipeline over lists in which a document may appear more than once:  *)
(* fetch_opinions and process_existing_json build the list from the items  *)
(* of a response or of a file as they come, and download_opinions puts a   *)
(* task on the queue for every element.                                    *)
(***************************************************************************)
RepeatedLists ==
    {q \in UNION {[1..n -> Records] : n \in 1..NumRecords} :
        \E i, j \in 1..Len(q) : i < j /\ q[i] = q[j]}

NextRepeated ==
    \/ \E s \in BOOLEAN : StartProcess("run", s)
    \/ \E age \in {0, 1} : Cleanup(DefaultStaleHours, age, 0)
    \/ Exit
    \/ \E list \in RepeatedLists : BeginRun(list)
    \/ PreflightCheck
    \/ PreflightSkip
    \/ PreflightEnqueue
    \/ PreflightEnd
    \/ \E w \in Workers : WorkerTake(w)
    \/ \E w \in Workers, found \in BOOLEAN : WorkerUrl(w, found)
    \/ \E w \in Workers, size \in -1..MaxPayload, text \in ExceptionTexts :
          WorkerDownload(w, size, text)
    \/ \E w \in Workers, ok \in BOOLEAN : WorkerOpen(w, ok)
    \/ \E w \in Workers, ok \in BOOLEAN : WorkerWrite(w, ok)
    \/ \E w \in Workers : WorkerComplete(w)
    \/ \E w \in Workers : WorkerFail(w)
    \/ JoinDone
    \/ AfterReturn

SpecRepeated == InitPipeline /\ [][NextRepeated]_vars

(***************************************************************************)
(* download_opinions in a process that is not killed, with a ledger whose  *)
(* operations can raise.  The event loop runs every coroutine that can     *)
(* take a step, so a step that stays possible is eventually taken.         *)
(***************************************************************************)
NextTermination ==
    \/ \E s \in BOOLEAN : StartProcess("pdfs_only", s)
    \/ Exit
    \/ \E list \in OpinionLists : BeginRun(list)
    \/ PreflightCheck
    \/ PreflightSkip
    \/ PreflightEnqueue
    \/ PreflightEnd
    \/ \E w \in Workers : WorkerTake(w)
    \/ \E w \in Workers, found \in BOOLEAN : WorkerUrl(w, found)
    \/ \E w \in Workers, size \in -1..MaxPayload, text \in ExceptionTexts :
          WorkerDownload(w, size, text)
    \/ \E w \in Workers, ok \in BOOLEAN : WorkerOpen(w, ok)
    \/ \E w \in Workers, ok \in BOOLEAN : WorkerWrite(w, ok)
    \/ \E w \in Workers : WorkerComplete(w)
    \/ \E w \in Workers : WorkerFail(w)
    \/ \E w \in Workers, again \in BOOLEAN : WorkerLedgerError(w, again)
    \/ JoinDone
    \/ AfterReturn

SpecTermination ==
    InitPipeline /\ [][NextTermination]_vars /\ WF_vars(NextTermination)

(***************************************************************************)
(* generate_monthly_periods (utils.py) over a calendar of twelve months of *)
(* MonthDays days of DayTicks instants each; the last instant of a day is  *)
(* 23:59:59.999999 and two neighbouring instants are one microsecond apart.*)
(***************************************************************************)
MonthDays == 2
DayTicks == 2
MaxYear == 1

Datetimes ==
    [year : 0..MaxYear, month : 1..12, day : 1..MonthDays, tick : 0..(DayTicks - 1)]

\* The position of a datetime on the time line.
Key(t) ==
    ((t.year * 12 + (t.month - 1)) * MonthDays + (t.day - 1)) * DayTicks + t.tick

\* The datetime at a position of the time line.
FromKey(k) ==
    [year  |-> k \div (12 * MonthDays * DayTicks),
     month |-> ((k \div (MonthDays * DayTicks)) % 12) + 1,
     day   |-> ((k \div DayTicks) % MonthDays) + 1,
     tick  |-> k % DayTicks]

\* start_date.replace(day=1, hour=0, minute=0, second=0, microsecond=0)
FirstOfMonth(t) == [t EXCEPT !.day = 1, !.tick = 0]

\* end_date.replace(hour=23, minute=59, second=59, microsecond=999999)
EndOfDay(t) == [t EXCEPT !.tick = DayTicks - 1]

\* The first instant of the month after current: December is followed by
\* January of the next year.
NextMonth(current) ==
    IF current.month = 12
    THEN [current EXCEPT !.year = @ + 1, !.month = 1, !.day = 1]
    ELSE [current EXCEPT !.month = @ + 1, !.day = 1]

\* Mutant: a window ends with the first instant of the next month.
PeriodEnd_NextMonth(next_month, end_date) ==
    IF Key(next_month) <= Key(end_date) THEN next_month ELSE end_date

\* period_end = min(next_month - timedelta(microseconds=1), end_date)
PeriodEnd(next_month, end_date) ==
    IF Key(next_month) - 1 <= Key(end_date)
    THEN FromKey(Key(next_month) - 1) ELSE end_date

\* while current < end_date: periods.append((current, period_end));
\* current = next_month
RECURSIVE MonthlyLoop(_, _)
MonthlyLoop(current, end_date) ==
    IF Key(current) < Key(end_date)
    THEN <<[period_start |-> current,
            period_end |-> PeriodEnd(NextMonth(current), end_date)]>>
         \o MonthlyLoop(NextMonth(current), end_date)
    ELSE <<>>

GenerateMonthlyPeriods(start_date, end_date) ==
    MonthlyLoop(FirstOfMonth(start_date), EndOfDay(end_date))

(***************************************************************************)
(* DawsonScraper.run and _process_period (scraper.py).  The periods are    *)
(* processed one after the other; a call of download_opinions is followed  *)
(* here from its call to its return or raise, its workers are followed in  *)
(* the pipeline above.                                                     *)
(***************************************************************************)
FirstMonth == 11
MaxPeriods == 3
MaxFound == 1

\* The dates run() is called with: from the month FirstMonth of year 0 on,
\* over MaxPeriods months, so that a year ends inside the range.
RunDates ==
    {t \in Datetimes :
        /\ t.year * 12 + t.month >= FirstMonth
        /\ t.year * 12 + t.month < FirstMonth + MaxPeriods}

\* The responses of the search request of a period.
SearchResponses == {r \in Responses : Len(r.items) <= MaxFound}

\* What one call of download_opinions over n opinions does to self.stats
\* when it returns: every opinion is skipped, downloaded or failed, and a
\* downloaded one adds 1..MaxPayload bytes.
CallOutcomes(n) ==
    {o \in [successful : 0..MaxFound, failed : 0..MaxFound, skipped : 0..MaxFound,
            total_bytes : 0..(MaxFound * MaxPayload)] :
        /\ o.successful + o.failed + o.skipped = n
        /\ o.successful <= o.total_bytes
        /\ o.total_bytes <= o.successful * MaxPayload}

AllCallOutcomes == UNION {CallOutcomes(n) : n \in 0..MaxFound}

AddStats(a, b) ==
    [successful |-> a.successful + b.successful,
     failed |-> a.failed + b.failed,
     skipped |-> a.skipped + b.skipped,
     total_bytes |-> a.total_bytes + b.total_bytes]

\* The variables of the client and of the pipeline that run() leaves alone
\* in this view.
RunFrame ==
    /\ UNCHANGED <<max_concurrent, semaphore, tokens, lock, lockWaiters, slept, late,
                   pc, kind, attempt_number, netCalls, returned, issued>>
    /\ UNCHANGED <<rows, ledger, disk, phase, mode, settings_skip, opinions,
                   skip_existing, fresh, idx, exists, tasks, download_queue, unfinished,
                   wpc, wtask, wdata, woff, werr, orphan, pre, outcome, contacted,
                   runs, starts, retried, cleaned, ledger_raised>>
    /\ UNCHANGED clockVars

\* record_search: one INSERT INTO searches.
RecordSearch(rs, window, n, status) ==
    Append(rs, [window |-> window, opinions_found |-> n, status |-> status])

\* run(start_date, end_date, download_pdfs) up to the loop: the database is
\* initialised, the API session is started and the periods are generated.
Run(start_date, end_date, pdfs) ==
    /\ rpc = "idle"
    /\ span' = <<start_date, end_date>>
    /\ periods' = GenerateMonthlyPeriods(start_date, end_date)
    /\ sstats' = [sstats EXCEPT !.total_periods = Len(periods')]
    /\ download_pdfs' = pdfs
    /\ session' = "open"
    /\ pidx' = 1
    /\ rpc' = IF periods' = <<>> THEN "finally" ELSE "fetch"
    /\ UNCHANGED <<response, fetched, stats, searches, sums, escaped>>
    /\ RunFrame

\* _process_period: opinions = await self.api_client.fetch_opinions(...).
\* fetch_opinions returns what it parsed from the response r, or raises
\* (response.data["opinions"] is not iterable).
FetchPeriod(r, raises) ==
    /\ rpc = "fetch"
    /\ raises => (r.success /\ r.shape = "dict_opinions" /\ r.items = <<>>)
    /\ response' = r
    /\ fetched' = IF raises THEN <<>> ELSE FetchOpinions(r)
    /\ rpc' = IF raises THEN "except"
              ELSE IF fetched' # <<>> THEN "found" ELSE "empty"
    /\ UNCHANGED <<periods, pidx, download_pdfs, searches, sstats, session, span,
                   sums, escaped, stats>>
    /\ RunFrame

\* _process_period, if opinions: _save_json, record_opinion for each opinion
\* and record_search(..., len(opinions), json_path) with status "completed",
\* then the search counters; any of the three awaits can raise.
RecordPeriod(ok) ==
    /\ rpc = "found"
    /\ IF ok
       THEN /\ searches' = RecordSearch(searches, periods[pidx], Len(fetched), "completed")
            /\ sstats' = [sstats EXCEPT !.successful_searches = @ + 1,
                                        !.total_opinions = @ + Len(fetched)]
            /\ rpc' = IF download_pdfs THEN "download" ELSE "next"
       ELSE /\ rpc' = "except"
            /\ UNCHANGED <<searches, sstats>>
    /\ UNCHANGED <<response, fetched, periods, pidx, download_pdfs, session, span,
                   sums, escaped, stats>>
    /\ RunFrame

\* _process_period, else: record_search(..., 0, "", status="empty").
RecordEmpty(ok) ==
    /\ rpc = "empty"
    /\ IF ok
       THEN /\ searches' = RecordSearch(searches, periods[pidx], 0, "empty")
            /\ rpc' = "next"
       ELSE /\ rpc' = "except"
            /\ UNCHANGED searches
    /\ UNCHANGED <<response, fetched, periods, pidx, download_pdfs, sstats, session,
                   span, sums, escaped, stats>>
    /\ RunFrame

\* download_opinions returns self.stats: the dict made in __init__, with
\* everything counted since.
ReturnedStats(st, o) == AddStats(st, o)

\* _process_period: download_stats = await download_opinions(opinions, ...)
\* and the four additions to self.stats.  The call counts o and returns; or it
\* raises in its pre-flight loop after it has counted k opinions as skipped.
DownloadPeriod(o, ok, k) ==
    /\ rpc = "download"
    /\ o \in CallOutcomes(Len(fetched))
    /\ k <= Len(fetched)
    /\ IF ok
       THEN /\ stats' = AddStats(stats, o)
            /\ sums' = AddStats(sums, o)
            /\ LET download_stats == ReturnedStats(stats, o)
               IN  sstats' = [sstats EXCEPT
                      !.successful_downloads = @ + download_stats.successful,
                      !.failed_downloads = @ + download_stats.failed,
                      !.skipped_downloads = @ + download_stats.skipped,
                      !.total_bytes_downloaded = @ + download_stats.total_bytes]
            /\ rpc' = "next"
       ELSE /\ stats' = [stats EXCEPT !.skipped = @ + k]
            /\ rpc' = "except"
            /\ UNCHANGED <<sums, sstats>>
    /\ UNCHANGED <<response, fetched, periods, pidx, download_pdfs, searches, session,
                   span, escaped>>
    /\ RunFrame

\* _process_period, except Exception: record_search(..., status="failed") and
\* failed_searches += 1; if that record_search raises, the exception leaves
\* _process_period and the loop of run().
HandlePeriodFailure(ok) ==
    /\ rpc = "except"
    /\ IF ok
       THEN /\ searches' = RecordSearch(searches, periods[pidx], 0, "failed")
            /\ sstats' = [sstats EXCEPT !.failed_searches = @ + 1]
            /\ rpc' = "next"
            /\ UNCHANGED <<response, fetched, escaped>>
       ELSE /\ escaped' = TRUE
            /\ rpc' = "finally"
            /\ response' = NoResponse
            /\ fetched' = <<>>
            /\ UNCHANGED <<searches, sstats>>
    /\ UNCHANGED <<periods, pidx, download_pdfs, session, span,
                   sums, stats>>
    /\ RunFrame

\* run(): the loop goes to its next period, after asyncio.sleep(1.0), or ends.
NextPeriod ==
    /\ rpc = "next"
    /\ pidx' = pidx + 1
    /\ rpc' = IF pidx < Len(periods) THEN "fetch" ELSE "finally"
    /\ response' = NoResponse
    /\ fetched' = <<>>
    /\ UNCHANGED <<periods, download_pdfs, searches, sstats, session, span, sums,
                   escaped, stats>>
    /\ RunFrame

\* Mutant: the session is closed only after the last period.
CloseWhen_Normal == ~escaped

\* run(), finally: await self.api_client.close()
CloseWhen == TRUE

CloseSession ==
    /\ rpc = "finally"
    /\ session' = IF CloseWhen THEN "closed" ELSE session
    /\ rpc' = "exited"
    /\ UNCHANGED <<response, fetched, periods, pidx, download_pdfs, searches, sstats,
                   span, sums, escaped, stats>>
    /\ RunFrame

NextRun ==
    \/ \E start_date, end_date \in RunDates, pdfs \in BOOLEAN :
          Run(start_date, end_date, pdfs)
    \/ \E r \in SearchResponses, raises \in BOOLEAN : FetchPeriod(r, raises)
    \/ \E ok \in BOOLEAN : RecordPeriod(ok)
    \/ \E ok \in BOOLEAN : RecordEmpty(ok)
    \/ \E ok \in BOOLEAN, k \in 0..MaxFound, o \in AllCallOutcomes :
          DownloadPeriod(o, ok, k)
    \/ \E ok \in BOOLEAN : HandlePeriodFailure(ok)
    \/ NextPeriod
    \/ CloseSession

InitRun == ClientIdle /\ PipeInit /\ RunIdle /\ ClockZero

SpecRun == InitRun /\ [][NextRun]_vars

(***************************************************************************)
(* fetch_opinions on its own, over every response of the bounded shapes.   *)
(***************************************************************************)
NextFetch == \E r \in Responses : Fetch(r)

InitFetch == ClientIdle /\ PipeInit /\ RunIdle /\ ClockZero

SpecFetch == InitFetch /\ [][NextFetch]_vars

(***************************************************************************)
(* The RateLimiter on its own: a new limiter whose acquire() is called     *)
(* directly, by up to MaxAcquires acquisitions of concurrent callers.      *)
(***************************************************************************)
MaxAcquires == Max_burst + NumCallers

\* A caller starts RateLimiter.acquire().
LimiterAcquire(c) ==
    /\ pc[c] = "idle"
    /\ issued < MaxAcquires
    /\ issued' = issued + 1
    /\ pc' = [pc EXCEPT ![c] = "limiter"]
    /\ UNCHANGED <<max_concurrent, semaphore, tokens, lock, lockWaiters, slept, late,
                   kind, attempt_number, netCalls, returned>>
    /\ UNCHANGED pipeVars
    /\ UNCHANGED runVars
    /\ UNCHANGED clockVars
    /\ UNCHANGED fetchVars

\* acquire() has taken its token and returns to the caller.
LimiterReturn(c) ==
    /\ pc[c] = "net"
    /\ pc' = [pc EXCEPT ![c] = "idle"]
    /\ UNCHANGED <<max_concurrent, semaphore, tokens, lock, lockWaiters, slept, late,
                   kind, attempt_number, netCalls, returned, issued>>
    /\ UNCHANGED pipeVars
    /\ UNCHANGED runVars
    /\ UNCHANGED clockVars
    /\ UNCHANGED fetchVars

\* RateLimiter.__init__: the bucket starts full.
InitLimiter == ClientIdle /\ PipeInit /\ RunIdle /\ ClockZero

NextLimiter ==
    \/ \E c \in Callers : LimiterAcquire(c)
    \/ \E c \in Callers : AcquireToken(c)
    \/ \E c \in Callers : LockGranted(c)
    \/ \E c \in Callers : Wake(c)
    \/ \E c \in Callers : LimiterReturn(c)

SpecLimiter == InitLimiter /\ [][NextLimiter]_vars

(***************************************************************************)
(* The RateLimiter against the clock: elapsed is now - last_update, and    *)
(* last_update is written only inside the loop that runs while             *)
(* tokens <= 0.                                                            *)
(***************************************************************************)
\* Time passes.
Tick ==
    /\ now < MaxNow
    /\ now' = now + 1
    /\ UNCHANGED <<last_update, grants>>
    /\ UNCHANGED clientVars
    /\ UNCHANGED pipeVars
    /\ UNCHANGED runVars

\* self.last_update = now, inside "while self.tokens <= 0" only.
LastUpdate(t, read, kept) == IF MustRefill(t) THEN read ELSE kept

\* One pass of the lock holder through acquire() at the time the clock shows.
ClockedStep(c, least) ==
    /\ BucketStep(c, now - last_update, least)
    /\ last_update' = LastUpdate(tokens, now, last_update)
    /\ grants' = IF pc'[c] = "net" THEN [grants EXCEPT ![now] = @ + 1] ELSE grants
    /\ UNCHANGED now

\* acquire(): the lock is free, or the caller queues.
AcquireTokenAt(c) ==
    /\ pc[c] = "limiter"
    /\ IF lock = NoOne /\ lockWaiters = <<>>
       THEN ClockedStep(c, 0)
       ELSE /\ lockWaiters' = Append(lockWaiters, c)
            /\ pc' = [pc EXCEPT ![c] = "lockwait"]
            /\ UNCHANGED <<tokens, lock, slept, late>>
            /\ UNCHANGED clockVars
    /\ UNCHANGED <<max_concurrent, semaphore, kind, attempt_number, netCalls,
                   returned, issued>>
    /\ UNCHANGED pipeVars
    /\ UNCHANGED runVars
    /\ UNCHANGED fetchVars

\* A waiter that was handed the lock resumes inside acquire().
LockGrantedAt(c) ==
    /\ pc[c] = "lockwait"
    /\ lock = c
    /\ ClockedStep(c, 0)
    /\ UNCHANGED <<max_concurrent, semaphore, kind, attempt_number, netCalls,
                   returned, issued>>
    /\ UNCHANGED pipeVars
    /\ UNCHANGED runVars
    /\ UNCHANGED fetchVars

\* asyncio.sleep(wait_time) returns once wait_time has passed since the
\* sleep began, which is when last_update was written; the loop repeats.
WakeAt(c) ==
    /\ pc[c] = "sleep"
    /\ lock = c
    /\ now - last_update >= slept
    /\ ClockedStep(c, slept)
    /\ UNCHANGED <<max_concurrent, semaphore, kind, attempt_number, netCalls,
                   returned, issued>>
    /\ UNCHANGED pipeVars
    /\ UNCHANGED runVars
    /\ UNCHANGED fetchVars

NextClock ==
    \/ Tick
    \/ \E c \in Callers : LimiterAcquire(c)
    \/ \E c \in Callers : AcquireTokenAt(c)
    \/ \E c \in Callers : LockGrantedAt(c)
    \/ \E c \in Callers : WakeAt(c)
    \/ \E c \in Callers : LimiterReturn(c)

SpecClock == InitLimiter /\ [][NextClock]_vars

(***************************************************************************)
(* Claims about the APIClient, checked under SpecClient.                   *)
(***************************************************************************)
\* Callers inside "async with self.semaphore": waiting for a rate-limiter
\* token or performing their network call.
PermitHolders == {c \in Callers : pc[c] \in {"limiter", "lockwait", "sleep", "net"}}

\* C1: at most max_concurrent executions hold a permit at any time, and every
\* permit is handed back when an execution leaves (with a Response, a failed
\* Response or an exception), so free permits plus holders always equal
\* max_concurrent.
C1_PermitBound ==
    /\ Cardinality(PermitHolders) <= max_concurrent
    /\ semaphore + Cardinality(PermitHolders) = max_concurrent

\* C1 witness: every permit is held, one holder sleeps for a token, another
\* caller is kept waiting for a permit, and a call has left by raising.
C1_Witness ==
    /\ Cardinality(PermitHolders) = max_concurrent
    /\ \E c \in Callers : pc[c] = "sleep"
    /\ \E c \in Callers : pc[c] = "permit"
    /\ returned.result.tag = "raised"

TransportFailure(o) == o.type \in {"timeout", "client_error"}

\* A _make_request call has returned to its caller.
RequestReturned == returned.caller # NoOne /\ returned.kind = "request"

\* C8 (as claimed): a _make_request call whose network attempt failed with a
\* timeout or a connection error returns a failed Response only after all
\* three attempts have been made.
C8_RetriedToExhaustion ==
    (RequestReturned /\ TransportFailure(returned.outcome)
        /\ returned.result.tag = "response" /\ ~returned.result.success)
    => returned.netCalls = StopAfterAttempt

\* C9: when the server answers _make_request with an HTTP status, exactly one
\* network attempt is made, nothing is raised, the Response carries the status,
\* and success is true exactly when the status is below 400.
C9_HttpErrorNotRetried ==
    (RequestReturned /\ returned.outcome.type = "http")
    => /\ returned.netCalls = 1
       /\ returned.result.tag = "response"
       /\ returned.result.status_code = returned.outcome.status
       /\ returned.result.success <=> (returned.outcome.status < 400)
       /\ (returned.outcome.status >= 400 => returned.result.error # "")

\* C9 witness: a request answered with status 400 has returned, while another
\* call is still on the network.
C9_Witness ==
    /\ RequestReturned
    /\ returned.outcome.type = "http" /\ returned.outcome.status = 400
    /\ ~returned.result.success
    /\ \E c \in Callers : pc[c] = "net"

\* C10: a timeout or connection error never makes _make_request raise: the
\* caller receives a Response with success = false and an error text.
C10_TransportFailureIsResponse ==
    (RequestReturned /\ TransportFailure(returned.outcome))
    => /\ returned.result.tag = "response"
       /\ ~returned.result.success
       /\ returned.result.error # ""

\* C10 witness: a request whose network call timed out has returned a
\* Response after a single network attempt.
C10_Witness ==
    /\ RequestReturned
    /\ returned.outcome.type = "timeout"
    /\ returned.result.tag = "response"
    /\ returned.netCalls = 1

(***************************************************************************)
(* Claims about the download pipeline, checked under SpecPipeline.         *)
(***************************************************************************)
\* The records the pre-flight loop of the current call has dealt with.
PreflightPassed(id) == \E i \in 1..Len(opinions) : opinions[i] = id /\ i < idx

InQueue(id) == \E i \in 1..Len(download_queue) : download_queue[i] = id

InCall == phase \in {"preflight", "checked", "join", "returned"}

\* C2 (as claimed): the statistics every call of download_opinions returns,
\* a second call on the same ParallelDownloader included, add up to the number
\* of records passed to that call.
C2_StatsAddUp ==
    phase = "returned" =>
        stats.successful + stats.failed + stats.skipped = Len(opinions)

AllowedEdges ==
    {<<"pending", "downloading">>, <<"downloading", "completed">>,
     <<"downloading", "failed">>, <<"failed", "downloading">>,
     <<"pending", "skipped">>, <<"failed", "skipped">>}

\* A step writes the status of a record: the status differs afterwards, or
\* the attempts column does.
StatusWritten(id) ==
    /\ ledger[id].status # "absent"
    /\ \/ ledger'[id].status # ledger[id].status
       \/ ledger'[id].attempts # ledger[id].attempts

\* C3 (as claimed): every write of a record's status by any operation follows
\* one of the five edges PENDING->DOWNLOADING, DOWNLOADING->COMPLETED,
\* DOWNLOADING->FAILED, FAILED->DOWNLOADING, PENDING|FAILED->SKIPPED.
C3_OnlyAllowedEdges ==
    [][\A id \in Records :
          StatusWritten(id) =>
              <<ledger[id].status, ledger'[id].status>> \in AllowedEdges]_vars

\* C4 (as claimed): a record whose status is COMPLETED or SKIPPED keeps that
\* status in every later step, in the same process or a later one.
C4_TerminalStatuses ==
    [][\A id \in Records :
          ledger[id].status \in {"completed", "skipped"} =>
              ledger'[id].status = ledger[id].status]_vars

\* C5 (as claimed): a record left DOWNLOADING by a crashed process and swept
\* by cleanup_stale_downloads(hours=0) at the restart is FAILED or being
\* downloaded again, and is not COMPLETED until a new download of it
\* succeeds.
C5_ResumeNeverSilentlyCompleted ==
    \A id \in Records :
        orphan[id] = "reconciled" => ledger[id].status \in {"failed", "downloading"}

\* C6: a record that is COMPLETED in the ledger with a non-empty file when a
\* call of download_opinions with skip_existing=True begins causes no network
\* call, is never put on the queue or held by a worker, and is counted as
\* skipped once the pre-flight loop has passed it.
C6_RerunSkipsCompleted ==
    \A id \in Records :
        (InCall /\ skip_existing /\ pre[id] = "both") =>
            /\ ~contacted[id]
            /\ ~InQueue(id)
            /\ \A w \in Workers : wtask[w] # id
            /\ outcome[id] \in {"none", "skipped"}
            /\ PreflightPassed(id) => (outcome[id] = "skipped" /\ stats.skipped > 0)

\* C6 witness: a call with skip_existing=True has returned in a process whose
\* settings.skip_existing is off; one of its records was COMPLETED with its
\* file and was skipped, another one was downloaded.
C6_Witness ==
    /\ phase = "returned"
    /\ skip_existing
    /\ ~settings_skip
    /\ \E id \in Records : pre[id] = "both" /\ outcome[id] = "skipped"
    /\ \E id \in Records : pre[id] = "other" /\ outcome[id] = "successful"

\* C7 (as claimed): with skip_existing=True the pre-flight loop skips a record
\* only if the ledger had it COMPLETED and its file was there and non-empty;
\* every other record is put on the queue.
C7_SkipOnlyCompletedWithFile ==
    \A id \in Records :
        (InCall /\ skip_existing /\ PreflightPassed(id) /\ pre[id] # "both") =>
            outcome[id] # "skipped"

\* C11 (as claimed): when download_opinions returns, every task that failed
\* has its record FAILED with the text of the error, every task that did not
\* fail has its record COMPLETED, and no worker is left holding a task.
C11_FailureContained ==
    phase = "returned" =>
        /\ \A id \in Records :
              /\ outcome[id] = "failed" =>
                    /\ ledger[id].status = "failed"
                    /\ ledger[id].error_message \in {TaskError, NoDataReceived}
              /\ outcome[id] = "successful" => ledger[id].status = "completed"
        /\ \A w \in Workers : wtask[w] = 0

\* C12: whenever retry_failed_downloads hands records to download_opinions,
\* each of them has fewer than max_retries attempts in the ledger at that
\* moment.
C12_RetryCeiling ==
    [][(mode = "resume" /\ phase = "ready" /\ phase' = "preflight") =>
          \A i \in 1..Len(opinions') :
              ledger[opinions'[i]].attempts < DefaultMaxRetries]_vars

\* The case C12 is about, a record that has reached the retry ceiling: no
\* reachable ledger holds one, since the attempts column stays NULL.
C12_CeilingNeverReached ==
    \A id \in Records : ledger[id].attempts < DefaultMaxRetries

\* The records the current call has counted with a given outcome.
Counted(o) == {id \in Records : outcome[id] = o}

\* The sum of the file sizes the ledger holds for a set of records.
RECURSIVE SumFileSize(_)
SumFileSize(S) ==
    IF S = {} THEN 0
    ELSE LET id == CHOOSE x \in S : TRUE
         IN  ledger[id].file_size + SumFileSize(S \ {id})

\* C13: throughout the first call of download_opinions on a
\* ParallelDownloader, under every interleaving of its workers, skipped is
\* the number of records skipped by pre-flight, failed the number of tasks
\* that failed, successful the number of tasks that succeeded, and
\* total_bytes the sum of the sizes of the successful payloads only.
C13_OutcomeAccounting ==
    (InCall /\ fresh) =>
        /\ stats.skipped = Cardinality(Counted("skipped"))
        /\ stats.failed = Cardinality(Counted("failed"))
        /\ stats.successful = Cardinality(Counted("successful"))
        /\ stats.total_bytes = SumFileSize(Counted("successful"))

\* C13 witness: a first call has returned after one task succeeded with a
\* payload of full size and another failed although its download had
\* delivered bytes that reached the disk.
C13_Witness ==
    /\ phase = "returned"
    /\ fresh
    /\ \E id \in Records :
          outcome[id] = "successful" /\ ledger[id].file_size = MaxPayload
    /\ \E id \in Records : outcome[id] = "failed" /\ disk[id] > 0
    /\ stats.total_bytes = MaxPayload

\* The records of the current call that pre-flight put on the queue.
Enqueued == {id \in Records :
               /\ \E i \in 1..Len(opinions) : opinions[i] = id
               /\ outcome[id] # "skipped"}

\* C16: in the step in which download_opinions cancels its workers the queue
\* is empty, no worker is inside a task, and every enqueued record has been
\* counted as successful or failed and is COMPLETED or FAILED in the ledger.
C16_CancelAfterDrain ==
    [][(phase = "join" /\ phase' = "returned") =>
          /\ download_queue = <<>>
          /\ \A w \in Workers : wtask[w] = 0 /\ wpc[w] \in {"get", "off"}
          /\ \A id \in Enqueued :
                /\ outcome[id] \in {"successful", "failed"}
                /\ ledger'[id].status \in {"completed", "failed"}
          /\ stats'.successful + stats'.failed >= Cardinality(Enqueued)]_vars

\* C16 witness: the workers have been cancelled after two workers each
\* finished a task, one COMPLETED and one FAILED.
C16_Witness ==
    /\ phase = "returned"
    /\ Cardinality(Enqueued) = NumRecords
    /\ \A w \in Workers : wpc[w] = "off"
    /\ \E id \in Enqueued : ledger[id].status = "completed"
    /\ \E id \in Enqueued : ledger[id].status = "failed"

\* C17 (as claimed): whenever a ledger operation has raised in a process, the
\* error has left run() as a fatal error of the process.
C17_LedgerErrorIsFatal == ledger_raised => phase = "fatal"

\* C18 (as claimed): in every start mode, whenever a worker has been handed a
\* download task, cleanup_stale_downloads has run in the current process.
C18_ReconciledBeforeDispatch ==
    (phase = "join" /\ \E w \in Workers : wtask[w] # 0) => cleaned

\* The records a step hands to record_opinion: those of the list that
\* _process_period or process_existing_json passes on to download_opinions.
Seeded(id) ==
    /\ phase = "ready" /\ phase' = "preflight" /\ mode # "resume"
    /\ \E i \in 1..Len(opinions') : opinions'[i] = id

\* C19 (as claimed): record_opinion of an identity without a row creates a
\* row with status PENDING and attempt count 0, of an identity with a row it
\* leaves the row as it is, and no identity is listed twice in the table.
C19_IdempotentSeeding ==
    [][/\ \A id \in Records :
             Seeded(id) =>
                 IF ledger[id].status = "absent"
                 THEN ledger'[id].status = "pending" /\ ledger'[id].attempts = 0
                 ELSE ledger'[id] = ledger[id]
       /\ \A i, j \in 1..Len(rows') : rows'[i] = rows'[j] => i = j]_vars

\* The record whose status worker w writes in a step, or 0: the task it takes
\* (DOWNLOADING) or the task it ends (COMPLETED or FAILED).
WrittenBy(w) ==
    IF phase = "join" /\ wpc[w] = "get" /\ wpc'[w] = "url" THEN wtask'[w]
    ELSE IF phase = "join" /\ wpc[w] \in {"complete", "fail"} /\ wpc'[w] = "get"
         THEN wtask[w]
         ELSE 0

\* C20 (as claimed): a status write of a worker raises the attempt count of
\* its record by exactly 1 and leaves every other row as it is, and no step
\* lowers an attempt count.
C20_AttemptsCounted ==
    [][/\ \A w \in Workers :
             WrittenBy(w) # 0 =>
                 /\ ledger'[WrittenBy(w)].attempts = ledger[WrittenBy(w)].attempts + 1
                 /\ \A id \in Records \ {WrittenBy(w)} : ledger'[id] = ledger[id]
       /\ \A id \in Records : ledger'[id].attempts >= ledger[id].attempts]_vars

\* C21 (as claimed): a record whose completed_at is set has status COMPLETED
\* or FAILED.
C21_CompletedAtOnlyWhenEnded ==
    \A id \in Records :
        ledger[id].completed_at => ledger[id].status \in {"completed", "failed"}

\* The bytes of chunks 1..i-1: where chunk i starts in the joined body.
RECURSIVE Offset(_, _)
Offset(chunks, i) ==
    IF i <= 1 THEN 0 ELSE Offset(chunks, i - 1) + Len(chunks[i - 1])

\* C22: a download_file call ends after exactly one network attempt and
\* hands back its permit; answered with a status below 400 and a body read
\* to its end it returns the bytes of the chunks, each chunk at the place its
\* arrival order gives it; on an HTTP error status, an error while the body
\* streams, a timeout or a client error it raises and returns no bytes.
C22_DownloadOnce ==
    [][\A c \in Callers :
          (pc[c] = "net" /\ kind[c] = "download" /\ pc'[c] # "net") =>
              LET o == returned'.outcome
                  r == returned'.result
              IN  /\ returned'.caller = c /\ returned'.kind = "download"
                  /\ returned'.netCalls = 1
                  /\ pc'[c] = "idle"
                  /\ semaphore' = semaphore + 1
                  /\ IF o.type = "http" /\ o.status < 400
                     THEN /\ r.tag = "bytes"
                          /\ Len(r.data) = Offset(o.chunks, Len(o.chunks) + 1)
                          /\ \A i \in 1..Len(o.chunks) :
                                \A j \in 1..Len(o.chunks[i]) :
                                    r.data[Offset(o.chunks, i) + j] = o.chunks[i][j]
                     ELSE r.tag = "raised" /\ r.data = <<>>]_vars

\* C22 witness: a download has returned two chunks of different lengths
\* joined in arrival order.
C22_Witness ==
    /\ returned.kind = "download"
    /\ returned.outcome.chunks = << <<2, 3>>, <<1>> >>
    /\ returned.outcome.type = "http"
    /\ returned.result.data = <<2, 3, 1>>

\* C22 witness of the failing case: a body that broke after its first chunk
\* has been raised to the caller without bytes.
C22_WitnessRaised ==
    /\ returned.kind = "download"
    /\ returned.outcome.type = "stream_error"
    /\ Len(returned.outcome.chunks) = 1
    /\ returned.result.tag = "raised"

\* C23: for a successful response that carries items, fetch_opinions returns
\* exactly the items that parse, in the order of the response: an item that
\* does not parse is left out and the items after it are still returned.
C23_PartialSuccess ==
    (response.success /\ response.shape \in {"list", "dict_opinions"}) =>
        /\ fetched = SelectSeq(response.items, Parses)
        /\ \A i \in 1..Len(response.items) :
              Parses(response.items[i]) =>
                  \E k \in 1..Len(fetched) : fetched[k] = response.items[i]

\* C23 witness: an item whose docketEntryId is not a UUID stands between two
\* items that parse, and both of them have been returned, in order.
C23_Witness ==
    /\ response.success
    /\ Len(response.items) = 3
    /\ Parses(response.items[1])
    /\ response.items[2].object /\ response.items[2].complete
    /\ ~IsUuid(response.items[2].docketEntryId)
    /\ Parses(response.items[3])
    /\ response.items[3] # response.items[1]
    /\ fetched = <<response.items[1], response.items[3]>>

\* C27: for every list of records passed to download_opinions, at any time at
\* most one worker is processing a task for a given document identity, so no
\* two workers interleave status writes to the same ledger row.
C27_SingleWriterPerRow ==
    \A v, w \in Workers : (v # w /\ wtask[v] # 0) => wtask[v] # wtask[w]

\* C28: a record in status FAILED is moved to DOWNLOADING only while its
\* attempt count is below the configured maximum, whichever entry point
\* dispatches it (a period of run, process_existing_json or
\* retry_failed_downloads); below is what record["attempts"] < max_retries
\* finds true.
C28_FailedRetriedBelowMaximum ==
    [][\A id \in Records :
          (ledger[id].status = "failed" /\ ledger'[id].status = "downloading") =>
              /\ ~LessThanRaises(ledger[id].attempts)
              /\ ledger[id].attempts < DefaultMaxRetries]_vars

\* The records of the ledger whose attempt count is below max_retries: a
\* PENDING record was never moved to DOWNLOADING, so it has no attempt at all;
\* for a FAILED one the count is what record["attempts"] < max_retries finds.
Retryable(id) ==
    \/ ledger[id].status = "pending"
    \/ /\ ledger[id].status = "failed"
       /\ ~LessThanRaises(ledger[id].attempts)
       /\ ledger[id].attempts < DefaultMaxRetries

\* C29: retry_failed_downloads(max_retries) hands every ledger record whose
\* status is PENDING or FAILED and whose attempt count is below max_retries
\* to download_opinions, with skip_existing=False so that it is downloaded
\* again even when its file exists.
C29_RetryDispatchesAll ==
    [][(mode = "resume" /\ phase = "ready" /\ retried = "no" /\ retried' # "no") =>
          \A id \in Records : Retryable(id) =>
              /\ retried' = "dispatched"
              /\ \E i \in 1..Len(opinions') : opinions'[i] = id
              /\ ~skip_existing']_vars

\* C30: in every reachable ledger state a COMPLETED record has a file path and
\* a file size above 0; a download that returns zero bytes writes no file and
\* its task ends with the record FAILED.
C30_CompletedHasFile ==
    [][/\ \A id \in Records :
            ledger'[id].status = "completed" =>
                ledger'[id].file_path /\ ledger'[id].file_size > 0
       /\ \A w \in Workers :
            /\ (\E text \in ExceptionTexts : WorkerDownload(w, 0, text)) =>
                    /\ disk' = disk
                    /\ wpc'[w] = "fail"
                    /\ werr'[w] = NoDataReceived
            /\ (wpc[w] = "fail" /\ wpc'[w] # "fail" /\ phase' # "down") =>
                    /\ ledger'[wtask[w]].status = "failed"
                    /\ ledger'[wtask[w]].error_message = werr[w] \/ werr[w] = ""
                    /\ disk' = disk]_vars

\* A zero-byte download has ended: the record is FAILED with the text of the
\* ValueError and has no file.
C30_Witness ==
    \E id \in Records :
        /\ ledger[id].status = "failed"
        /\ ledger[id].error_message = NoDataReceived
        /\ outcome[id] = "failed"
        /\ disk[id] = NoFile

\* A record is COMPLETED from a file found on disk by the pre-flight check.
C30_WitnessCompleted ==
    \E id \in Records :
        /\ ledger[id].status = "completed"
        /\ pre[id] = "other"
        /\ outcome[id] = "none"
        /\ phase = "checked"

\* The rows of the searches table written for the i-th period of the run.
AuditRows(i) == {j \in 1..Len(searches) : searches[j].window = periods[i]}

\* The periods _process_period has finished with.
Processed == {i \in 1..Len(periods) : i < pidx \/ (i = pidx /\ rpc = "next")}

\* C31: each monthly window processed by the orchestrator produces exactly
\* one audit row in a run, and once a row with status "completed" has been
\* written for a window no further audit row is written for it in that run.
C31_OneAuditRowPerPeriod ==
    /\ \A i \in Processed : Cardinality(AuditRows(i)) = 1
    /\ \A i \in 1..Len(periods) : \A j \in AuditRows(i) :
          searches[j].status = "completed" => \A k \in AuditRows(i) : k <= j

\* C32: if every network, disk and ledger operation returns or raises, a
\* call of download_opinions that has started its workers eventually returns:
\* every task put on the queue is marked done, join() completes and the
\* workers stop.
C32_RunTerminates ==
    (phase = "join") ~>
        (phase = "returned" /\ unfinished = 0 /\ \A w \in Workers : wpc[w] = "off")

\* C34: across the periods of one run the orchestrator's successful, failed
\* and skipped download counters and its total bytes are the sums of what
\* the download_opinions calls of the periods did, each document outcome
\* counted once.
C34_TotalsAreSums ==
    /\ sstats.successful_downloads = sums.successful
    /\ sstats.failed_downloads = sums.failed
    /\ sstats.skipped_downloads = sums.skipped
    /\ sstats.total_bytes_downloaded = sums.total_bytes

\* C35: a period is recorded with audit status "empty" only when its search
\* request succeeded and returned no records; a period whose search request
\* failed is recorded with status "failed" and counted in failed_searches.
C35_EmptyOnlyAfterSuccess ==
    [][Len(searches') = Len(searches) + 1 =>
          LET row == searches'[Len(searches')]
          IN  /\ row.status = "empty" => response.success
              /\ ~response.success =>
                    /\ row.status = "failed"
                    /\ sstats'.failed_searches = sstats.failed_searches + 1]_vars

\* A worker holds the task of the record.
Held(wt, id) == \E w \in Workers : wt[w] = id

\* The attempt count of the record is a number and this step adds n to it.
AttemptsRaisedBy(id, n) ==
    /\ ledger[id].attempts # Null
    /\ ledger'[id].attempts = ledger[id].attempts + n

\* C36: one complete download attempt of a record, the DOWNLOADING write of
\* its dispatch followed by the COMPLETED or FAILED write, raises its ledger
\* attempt count by exactly 2: by 1 when a worker takes the task, by 1 when the
\* worker ends it and by nothing in between; so retry_failed_downloads with
\* max_retries = 3 dispatches a record that has failed once (attempts = 2) and
\* leaves out one that has failed twice (attempts = 4).
C36_TwoPerAttempt ==
    [][/\ \A id \in Records :
            /\ (~Held(wtask, id) /\ Held(wtask', id)) => AttemptsRaisedBy(id, 1)
            /\ (Held(wtask, id) /\ ~Held(wtask', id) /\ phase' # "down") =>
                    AttemptsRaisedBy(id, 1)
            /\ (Held(wtask, id) /\ Held(wtask', id)) => AttemptsRaisedBy(id, 0)
       /\ (mode = "resume" /\ phase = "ready" /\ retried = "no" /\ retried' # "no") =>
            \A id \in Records :
                /\ (ledger[id].status = "failed" /\ ledger[id].attempts = 2) =>
                        \E i \in 1..Len(opinions') : opinions'[i] = id
                /\ (ledger[id].status = "failed" /\ ledger[id].attempts = 4) =>
                        \A i \in 1..Len(opinions') : opinions'[i] # id]_vars

\* C37: cleanup_stale_downloads changes only rows whose status is DOWNLOADING
\* and whose started_at is older than the ttl; it sets their status to FAILED
\* and their error text to the timeout marker, keeps their attempt count,
\* completed_at and file fields, and leaves every field of every other row
\* (PENDING, COMPLETED, SKIPPED, FAILED, and DOWNLOADING rows younger than the
\* ttl) as it was.
C37_OnlyStaleRowsReset ==
    [][\A hours \in StaleHours, age \in Ages, offset \in UtcOffsets :
          Cleanup(hours, age, offset) =>
              \A id \in Records :
                  IF ledger[id].status = "downloading" /\ ledger[id].started_at
                        /\ age > hours
                  THEN ledger'[id] \in
                         {ledger[id],
                          [ledger[id] EXCEPT !.status = "failed",
                                             !.error_message = TimeoutMarker]}
                  ELSE ledger'[id] = ledger[id]]_vars

\* The step that leaves the handler of _process_period records the failure
\* of the current period and goes on to the next one.
FailureRecorded ==
    /\ searches' = RecordSearch(searches, periods[pidx], 0, "failed")
    /\ rpc' = "next"
    /\ pidx' = pidx

\* The loop of run() takes the periods one by one, in the order of the list.
LoopInOrder ==
    (rpc = "next" /\ rpc' # "next") =>
        /\ pidx' = pidx + 1
        /\ rpc' = IF pidx < Len(periods) THEN "fetch" ELSE "finally"

\* C38 as stated: an exception raised while processing one period is recorded
\* as a 'failed' audit row for that period and the orchestrator still
\* processes all later periods in order; the session of the client is closed
\* when run exits, normally or by an exception.
C38_FailureRecordedAndRunGoesOn ==
    [][/\ (rpc = "except" /\ rpc' # "except") => FailureRecorded
       /\ LoopInOrder
       /\ (rpc # "exited" /\ rpc' = "exited") =>
              (session' = "closed" /\ pidx' = Len(periods') + 1)]_vars

\* C38, amended: an exception raised while processing one period is recorded
\* as a 'failed' audit row for that period and the orchestrator still
\* processes all later periods in order, unless the write of that 'failed'
\* row itself raises: then the exception leaves run and no later period is
\* processed.  The session of the client is closed when run exits, normally
\* or by an exception.
C38_FailureRecordedUnlessAuditRaises ==
    [][/\ (rpc = "except" /\ rpc' # "except") =>
              \/ FailureRecorded
              \/ (escaped' /\ rpc' = "finally" /\ searches' = searches
                     /\ pidx' = pidx)
       /\ LoopInOrder
       /\ (rpc # "exited" /\ rpc' = "exited") =>
              /\ session' = "closed"
              /\ pidx' = IF escaped' THEN pidx ELSE Len(periods') + 1
              /\ searches' = searches]_vars

\* A run of two periods or more has ended: the first period failed and has
\* its 'failed' row, a later period has a row after it, the session is closed.
C38_Witness ==
    /\ rpc = "exited"
    /\ ~escaped
    /\ session = "closed"
    /\ Len(periods) >= 2
    /\ \E j, k \in 1..Len(searches) :
          /\ j < k
          /\ searches[j].window = periods[1]
          /\ searches[j].status = "failed"
          /\ searches[k].window = periods[2]

\* The windows of the list are in chronological order, pairwise disjoint and
\* each inside one calendar month.
WindowsOrdered ==
    /\ \A i \in 1..Len(periods) :
          /\ Key(periods[i].period_start) <= Key(periods[i].period_end)
          /\ periods[i].period_start.year = periods[i].period_end.year
          /\ periods[i].period_start.month = periods[i].period_end.month
    /\ \A i, j \in 1..Len(periods) :
          i < j => Key(periods[i].period_end) < Key(periods[j].period_start)

\* Every instant from the start date to the end date lies in a window.
WindowsCover ==
    \A k \in Key(span[1])..Key(span[2]) :
        \E i \in 1..Len(periods) :
            /\ Key(periods[i].period_start) <= k
            /\ k <= Key(periods[i].period_end)

\* The audit rows written so far are rows of the windows up to the current
\* one, in the order of the list.
ProcessedInOrder ==
    /\ \A j \in 1..Len(searches) :
          \E i \in 1..Len(periods) : i <= pidx /\ searches[j].window = periods[i]
    /\ \A j, k \in 1..Len(searches) :
          j < k => Key(searches[j].window.period_start)
                      <= Key(searches[k].window.period_start)

\* C39 as stated: generate_monthly_periods(start, end) with start <= end
\* returns windows in chronological order that are pairwise disjoint, each
\* inside a single calendar month, none extending past end, and whose union
\* covers every instant from start to end; the orchestrator processes them
\* one at a time in that order.
C39_WindowsPartitionRange ==
    (rpc # "idle" /\ Key(span[1]) <= Key(span[2])) =>
        /\ WindowsOrdered
        /\ \A i \in 1..Len(periods) :
              Key(periods[i].period_end) <= Key(span[2])
        /\ WindowsCover
        /\ ProcessedInOrder

\* C39, amended: as stated, but no window extends past the last instant of
\* the calendar day of end (instead of: past end).
C39_WindowsPartitionRangeToEndOfDay ==
    (rpc # "idle" /\ Key(span[1]) <= Key(span[2])) =>
        /\ WindowsOrdered
        /\ \A i \in 1..Len(periods) :
              Key(periods[i].period_end)
                 <= Key([span[2] EXCEPT !.tick = DayTicks - 1])
        /\ WindowsCover
        /\ ProcessedInOrder

\* A run over a range that starts in December and ends on a later day before
\* its last instant has processed its windows, the year changing in between.
C39_Witness ==
    /\ rpc = "exited"
    /\ ~escaped
    /\ Key(span[1]) <= Key(span[2])
    /\ span[1].day = MonthDays
    /\ span[2].tick = 0
    /\ Len(periods) >= 2
    /\ periods[1].period_start.month = 12
    /\ periods[2].period_start.year = periods[1].period_start.year + 1
    /\ Len(searches) >= Len(periods)

\* Callers inside RateLimiter.acquire(): they have requested a token and not
\* yet taken it.
TokenRequested == {c \in Callers : pc[c] \in {"limiter", "lockwait", "sleep"}}

\* C15: an execution requests a rate-limiter token only in the step in which
\* it has acquired a permit, starts its network call only in a step in which
\* it holds the limiter's lock and takes a token, and holds its permit from
\* the request of the token to the end of the network call.
C15_PermitThenTokenThenCall ==
    [][\A c \in Callers :
          /\ (c \in TokenRequested' /\ c \notin TokenRequested) =>
                /\ pc[c] = "permit"
                /\ semaphore > 0
                /\ semaphore' = semaphore - 1
          /\ (pc'[c] = "net" /\ pc[c] # "net") =>
                /\ c \in TokenRequested
                /\ lock = c \/ (lock = NoOne /\ lockWaiters = <<>>)
                /\ tokens' <= Max_burst * TokenScale - TokenScale
          /\ (c \in TokenRequested \/ pc[c] = "net") =>
                \/ c \in PermitHolders'
                \/ pc[c] = "net" /\ semaphore' = semaphore + 1]_vars

\* C15 witness: a download_file execution performs its network call with a
\* permit and a token taken, while a _make_request execution that holds the
\* other permit waits for its token and a third one waits for a permit.
C15_Witness ==
    /\ semaphore = 0
    /\ \E c \in Callers : pc[c] = "net" /\ kind[c] = "download"
    /\ \E c \in Callers : c \in TokenRequested /\ kind[c] = "request"
    /\ \E c \in Callers : pc[c] = "permit"
    /\ tokens < Max_burst * TokenScale

(***************************************************************************)
(* Claims about the RateLimiter, checked under SpecLimiter.                *)
(***************************************************************************)
\* Acquisitions that are inside acquire(): waiting for the lock or holding it.
Acquiring == {c \in Callers : pc[c] \in {"limiter", "lockwait", "sleep"}}

\* Acquisitions that have taken their token since the limiter was created.
Granted == issued - Cardinality(Acquiring)

\* (1 - tokens) * period / rate, in ticks
RequiredWait(t) == ((TokenScale - t) * TicksPerPeriod) \div (Calls * TokenScale)

\* C14: on a new limiter the first max_burst acquisitions take their token
\* without sleeping; once max_burst tokens are gone and the clock shows no time
\* beyond the sleeps, an acquisition that gets the lock sleeps, for a positive
\* time of at least (1 - tokens) * period / rate and at most one period.
C14_BurstThenSleep ==
    [][\A c \in Callers :
          (pc[c] \in {"limiter", "lockwait"} /\ pc'[c] \notin {"limiter", "lockwait"}) =>
              /\ Granted < Max_burst => (pc'[c] = "net" /\ slept' = 0)
              /\ (Granted >= Max_burst /\ ~late') =>
                    /\ pc'[c] = "sleep"
                    /\ slept' > 0
                    /\ slept' >= RequiredWait(tokens')
                    /\ slept' <= TicksPerPeriod]_vars

\* The acquisition after the burst is asleep, and no time has passed.
C14_Witness ==
    /\ ~late
    /\ Granted = Max_burst
    /\ tokens = 0
    /\ \E c \in Callers : pc[c] = "sleep" /\ lock = c /\ slept = RequiredWait(0)

\* C24: a caller that sleeps for a token holds the limiter's lock; only the
\* holder of the lock, or a caller that finds the lock free and unclaimed,
\* refills, takes a token or returns; and the lock passes to the waiters in
\* the order in which they arrived: a newcomer joins the end of the queue and
\* the lock is handed to its head.
C24_LockHeldWhileAsleep ==
    [][/\ \A c \in Callers : pc'[c] = "sleep" => lock' = c
       /\ \A c \in Callers :
             (pc'[c] # pc[c] /\ pc'[c] \in {"net", "sleep"}) =>
                 \/ lock = c
                 \/ lock = NoOne /\ lockWaiters = <<>>
       /\ tokens' # tokens =>
             \E c \in Callers : pc'[c] # pc[c] /\ pc'[c] \in {"net", "sleep"}
       /\ (\E c \in Callers : pc[c] = "sleep") =>
             \A d \in Callers :
                 (pc[d] # "sleep" /\ pc'[d] # pc[d]) => pc'[d] \in {"limiter", "lockwait", "idle"}
       /\ \/ lockWaiters' = lockWaiters
          \/ \E c \in Callers : lockWaiters' = Append(lockWaiters, c)
          \/ /\ lockWaiters # <<>>
             /\ lockWaiters' = Tail(lockWaiters)
             /\ lock' = Head(lockWaiters)]_vars

\* C24 witness: one caller sleeps with the lock while the two others wait for
\* it in their order of arrival.
C24_Witness ==
    /\ \E c \in Callers : pc[c] = "sleep" /\ lock = c
    /\ Len(lockWaiters) = 2
    /\ \A i \in 1..Len(lockWaiters) : pc[lockWaiters[i]] = "lockwait"

\* C25 (as claimed): a token is taken only when a whole token is there, so
\* the token count is never negative after a decrement.
C25_WholeTokenOnly ==
    [][\A c \in Callers :
          (pc'[c] = "net" /\ pc[c] # "net") =>
              tokens' >= 0]_vars

\* The callers whose acquire takes its token in a step.
Taking == {c \in Callers : pc'[c] = "net" /\ pc[c] # "net"}

\* C26: the token count never exceeds max_burst; at most one acquire takes a
\* token in a step, and that step deducts exactly one token from the count as
\* it is after the refill (which lies between the old count and max_burst);
\* a step in which no acquire takes a token deducts nothing.
C26_OneTokenPerAcquire ==
    [][/\ tokens' <= Max_burst * TokenScale
       /\ Cardinality(Taking) <= 1
       /\ Taking # {} =>
             /\ tokens' + TokenScale >= tokens
             /\ tokens' + TokenScale <= Max_burst * TokenScale
             /\ tokens > 0 => tokens' = tokens - TokenScale
       /\ Taking = {} => tokens' >= tokens]_vars

\* C26 witness: max_burst + 1 acquisitions by concurrent callers have
\* returned, the last one after a sleep that refilled one token, and the
\* bucket is empty: max_burst + 1 tokens have been deducted.
C26_Witness ==
    /\ Granted = Max_burst + 1
    /\ ~late
    /\ tokens = 0
    /\ \A c \in Callers : pc[c] = "net"

\* The acquire() calls that returned in the ticks a..b.
RECURSIVE GrantsIn(_, _)
GrantsIn(a, b) == IF a > b THEN 0 ELSE grants[a] + GrantsIn(a + 1, b)

\* C33: in any time interval of length T the number of acquire() calls that
\* return is at most max_burst + calls * T / period + 1, however long the
\* limiter was idle between its creation and the first acquisitions.
C33_WindowedRateBound ==
    \A a, b \in 0..MaxNow :
        a <= b =>
            GrantsIn(a, b) * TicksPerPeriod
                <= (Max_burst + 1) * TicksPerPeriod + (b - a) * Calls
====
